---------------------------- MODULE Spec2Model ----------------------------
(***************************************************************************)
(* Model of the reactive state engine of juris (bundle src/unnamed/part_009)*)
(* StateManager: path store, middleware pipeline, circular-update guard,   *)
(* internal/external subscriber registries, batching queue.                *)
(*                                                                         *)
(* A path is a JavaScript string, modelled as a tuple of one-character     *)
(* strings so that split('.'), trim(), includes('..') and startsWith() are *)
(* computed as the code computes them.  A JavaScript value is a tagged     *)
(* record: undefined, null, a number, or a plain object (a function from   *)
(* keys to values).  Objects are modelled by content (no aliasing).        *)
(***************************************************************************)
EXTENDS Integers, Sequences, FiniteSets, TLC

\* ------------------------------------------------------------------------
\* JavaScript values
\* ------------------------------------------------------------------------
Undef == [k |-> "undefined"]
Null == [k |-> "null"]
Num(n) == [k |-> "number", n |-> n]
Obj(f) == [k |-> "object", f |-> f]
EmptyObj == [x \in {} |-> Null]

\* the property every object and every wrapped primitive inherits from
\* its prototype, and the function it holds
constructorKey == <<"c", "o", "n", "s", "t", "r", "u", "c", "t", "o", "r">>
Constructor(kind) == [k |-> "function", of |-> kind]

\* obj[key] : an own key, else what the prototype holds under the key, else
\* undefined; null and undefined have no properties (read through ?.)
Prop(v, key) ==
    IF v.k = "object" /\ key \in DOMAIN v.f THEN v.f[key]
    ELSE IF v.k \notin {"null", "undefined"} /\ key = constructorKey
    THEN Constructor(v.k)
    ELSE Undef

\* obj[key] = val on the fields of an object
Put(f, key, val) ==
    [x \in (DOMAIN f) \cup {key} |-> IF x = key THEN val ELSE f[x]]

\* ------------------------------------------------------------------------
\* Strings (paths) as tuples of characters
\* ------------------------------------------------------------------------
\* a path argument that is not a string at all (typeof path !== 'string')
NotAString == <<"<not-a-string>">>

\* String.prototype.startsWith
startsWith(s, prefix) ==
    /\ Len(prefix) <= Len(s)
    /\ SubSeq(s, 1, Len(prefix)) = prefix

\* String.prototype.includes('..')
includesDotDot(s) ==
    \E i \in 1..(Len(s) - 1) : s[i] = "." /\ s[i + 1] = "."

\* String.prototype.trim().length > 0
trimNonEmpty(s) == \E i \in 1..Len(s) : s[i] # " "

isValidPath(path) ==
    /\ path # NotAString
    /\ trimNonEmpty(path)
    /\ ~includesDotDot(path)

\* path.split('.') : the segments between the dots, empty ones included
RECURSIVE split(_, _)
split(s, cur) ==
    IF s = << >> THEN <<cur>>
    ELSE IF Head(s) = "." THEN <<cur>> \o split(Tail(s), << >>)
    ELSE split(Tail(s), Append(cur, Head(s)))

\* path.split('.').filter(Boolean)
getPathParts(path) == SelectSeq(split(path, << >>), LAMBDA seg : seg # << >>)

\* parts.join('.')
RECURSIVE join(_)
join(parts) ==
    IF parts = << >> THEN << >>
    ELSE IF Len(parts) = 1 THEN parts[1]
    ELSE parts[1] \o <<".">> \o join(Tail(parts))

\* asyncPropsCache.get(cacheKey) without an entry
NoCache == [k |-> "none"]

\* ------------------------------------------------------------------------
\* deepEquals
\* ------------------------------------------------------------------------
RECURSIVE deepEquals(_, _)
deepEquals(a, b) ==
    IF a = b THEN TRUE
    ELSE IF a.k \in {"null", "undefined"} \/ b.k \in {"null", "undefined"}
              \/ a.k # b.k THEN FALSE
    ELSE IF a.k = "object" THEN
        /\ Cardinality(DOMAIN a.f) = Cardinality(DOMAIN b.f)
        /\ \A key \in DOMAIN a.f :
              key \in DOMAIN b.f /\ deepEquals(a.f[key], b.f[key])
    ELSE FALSE


\* ------------------------------------------------------------------------
\* Paths and values used as inputs
\* ------------------------------------------------------------------------
pA == <<"a">>
pAB == <<"a", ".", "b">>
pABC == <<"a", ".", "b", ".", "c">>
pAx == <<"a", "x">>
pEmpty == << >>
pBlank == <<" ">>
pDotDot == <<"a", ".", ".", "b">>

\* 'a', 'a.b', 'a.b.c' and 'ax' (shares the string prefix 'a', not the segment)
ValidPaths == {pA, pAB, pABC, pAx}
\* '', ' ', 'a..b' and a path that is not a string
InvalidPaths == {pEmpty, pBlank, pDotDot, NotAString}

ObjB1 == Obj([x \in {<<"b">>} |-> Num(1)])
Values == {Undef, Null, Num(1), Num(2), ObjB1}

\* ------------------------------------------------------------------------
\* Callbacks and middleware: the client code the engine calls back.
\* A callback body is a list of instructions run in order:
\*   get  : getState(path)            (tracked read)
\*   set  : setState(path, val)       (a nested setState)
\*   throw: throw new Error()
\*   getIf: getState(path) === val ? getState(yes) : getState(no)
\*   peek : getState(path, null, false)  (untracked read)
\*   create: a nested _createReactiveUpdate for the function fn (the body
\*           renders a child that has a reactive binding of its own)
\* ------------------------------------------------------------------------
iGet(p) == [op |-> "get", path |-> p, val |-> Undef]
iSet(p, v) == [op |-> "set", path |-> p, val |-> v]
iThrow == [op |-> "throw", path |-> << >>, val |-> Undef]
iGetIf(p, v, q1, q2) == [op |-> "getIf", path |-> p, val |-> v, yes |-> q1, no |-> q2]
iPeek(p) == [op |-> "peek", path |-> p, val |-> Undef]
iCreate(fn) == [op |-> "create", path |-> << >>, val |-> Undef, fn |-> fn]

\* reactive update functions (internal subscribers)
Program(cb) ==
    CASE cb = "rAll" -> <<iGet(pA), iGet(pAB), iGet(pABC)>>
      [] cb = "rSet" -> <<iGet(pAx), iGet(pAB), iSet(pAx, Num(2))>>
      [] cb = "rCirc" -> <<iGet(pA), iSet(pA, Num(1))>>
      [] cb = "rThrow" -> <<iGet(pAB), iThrow>>
      \* reads 'a.b' while 'a' is 1 and 'ax' otherwise
      [] cb = "rCond" -> <<iGetIf(pA, Num(1), pAB, pAx)>>
      \* reads 'a', sets up the binding of a child, then reads 'ax'
      [] cb = "rOuter" -> <<iGet(pA), iCreate("rInner"), iGet(pAx)>>
      [] cb = "rInner" -> <<iGet(pAB)>>
      \* reads 'a', peeks at 'a.b.c' without tracking, writes 'a.b'
      [] cb = "rWrite" -> <<iGet(pA), iPeek(pABC), iSet(pAB, Num(2))>>
      \* callbacks handed to subscribe()
      [] cb = "eObs" -> << >>
      [] cb = "eThrow" -> <<iThrow>>

\* middleware functions: what each returns for ({path, oldValue, newValue})
\*   threw: the middleware threw;  result = Undef: it returned undefined
mwCall(mw, path, oldValue, newValue) ==
    CASE mw = "mwObserve" -> [threw |-> FALSE, result |-> Undef]
      [] mw = "mwThrow" -> [threw |-> TRUE, result |-> Undef]
      [] mw = "mwCap" ->
            [threw |-> FALSE,
             result |-> IF newValue = Num(2) THEN Num(1) ELSE Undef]

\* ------------------------------------------------------------------------
\* The StateManager object as a record of its fields, threaded through the
\* methods.  Besides the fields of the class:
\*   calls  : the trace of what the running top-level call has invoked
\*   exc    : an exception is propagating
\*   timers : pending setTimeout(() => this._processBatchedUpdates(), 0)
\*   armed  : the timer behind this.batchTimeout has not fired yet
\*   sets   : the Set objects created for dependency tracking, each the
\*            paths added to it in insertion order; currentTracking is the
\*            index of one of them, or 0 for null
\* ------------------------------------------------------------------------

Ev(k, id, path, val, old) ==
    [k |-> k, id |-> id, path |-> path, val |-> val, old |-> old]

log(sm, e) == [sm EXCEPT !.calls = Append(@, e)]

InSeq(x, s) == \E i \in 1..Len(s) : s[i] = x

\* Set.prototype.add on an insertion-ordered Set
setAdd(s, x) == IF InSeq(x, s) THEN s ELSE Append(s, x)

\* Map.prototype.get on a sequence of [path, ...] entries: its index or 0
indexOf(entries, path) ==
    IF \E i \in 1..Len(entries) : entries[i].path = path
    THEN CHOOSE i \in 1..Len(entries) : entries[i].path = path
    ELSE 0

RemoveAt(s, i) == SubSeq(s, 1, i - 1) \o SubSeq(s, i + 1, Len(s))

\* the value reached by walking parts from cur, or defaultValue
RECURSIVE walk(_, _, _)
walk(cur, parts, defaultValue) ==
    IF parts = << >> THEN cur
    ELSE IF Prop(cur, Head(parts)) = Undef THEN defaultValue
    ELSE walk(Prop(cur, Head(parts)), Tail(parts), defaultValue)

getState(sm, path, defaultValue, track) ==
    IF ~isValidPath(path) THEN [sm |-> sm, value |-> defaultValue]
    ELSE [sm |-> IF track /\ sm.currentTracking # 0
                 THEN [sm EXCEPT !.sets[sm.currentTracking] = setAdd(@, path)]
                 ELSE sm,
          value |-> walk(Obj(sm.state), getPathParts(path), defaultValue)]

\* the key JavaScript uses for parts[-1] when parts is empty
UndefinedKey == <<"u", "n", "d", "e", "f", "i", "n", "e", "d">>

\* writePath without the walk through the intermediate objects: the value is
\* assigned at the first segment
writePath_Shallow(f, parts, val) ==
    IF parts = << >> THEN Put(f, UndefinedKey, val)
    ELSE Put(f, parts[1], val)

\* lines 179-186: create the intermediate objects and assign the last key
RECURSIVE writePath(_, _, _)
writePath(f, parts, val) ==
    IF parts = << >> THEN Put(f, UndefinedKey, val)
    ELSE IF Len(parts) = 1 THEN Put(f, parts[1], val)
    ELSE LET cur == Prop(Obj(f), parts[1])
             child == IF cur.k = "object" THEN cur.f ELSE EmptyObj
         IN Put(f, parts[1], Obj(writePath(child, Tail(parts), val)))

_hasCircularUpdate(sm, path) == path \in sm.currentlyUpdating

subscribeInternal(sm, path, callback) ==
    LET i == indexOf(sm.subscribers, path)
    IN IF i = 0
       THEN [sm EXCEPT !.subscribers =
                Append(@, [path |-> path, cbs |-> <<callback>>])]
       ELSE [sm EXCEPT !.subscribers[i].cbs = setAdd(@, callback)]

\* the middleware loop with the try/catch around the whole loop: a throw ends it
RECURSIVE runMiddleware_AbortOnThrow(_, _, _, _, _)
runMiddleware_AbortOnThrow(sm, path, oldValue, finalValue, i) ==
    IF i > Len(sm.middleware) THEN [sm |-> sm, value |-> finalValue]
    ELSE LET r == mwCall(sm.middleware[i], path, oldValue, finalValue)
             sm1 == log(sm, Ev("mw", sm.middleware[i], path, finalValue, oldValue))
         IN IF r.threw THEN [sm |-> sm1, value |-> finalValue]
            ELSE runMiddleware_AbortOnThrow(sm1, path, oldValue,
                    IF r.result # Undef THEN r.result ELSE finalValue, i + 1)

\* the middleware loop of _setStateImmediate, from the i-th middleware on
RECURSIVE runMiddleware(_, _, _, _, _)
runMiddleware(sm, path, oldValue, finalValue, i) ==
    IF i > Len(sm.middleware) THEN [sm |-> sm, value |-> finalValue]
    ELSE LET r == mwCall(sm.middleware[i], path, oldValue, finalValue)
             sm1 == log(sm, Ev("mw", sm.middleware[i], path, finalValue, oldValue))
         IN runMiddleware(sm1, path, oldValue,
                IF ~r.threw /\ r.result # Undef THEN r.result ELSE finalValue,
                i + 1)

\* ------------------------------------------------------------------------
\* setState and everything it calls (the calls are re-entrant: a callback
\* may call setState while a notification is running)
\* ------------------------------------------------------------------------
RECURSIVE setState(_, _, _)
RECURSIVE _setStateImmediate(_, _, _)
RECURSIVE _queueUpdate(_, _, _)
RECURSIVE _processBatchedUpdates(_)
RECURSIVE applyPathGroups(_, _)
RECURSIVE _notifySubscribers(_, _)
RECURSIVE notifyAncestors(_, _, _)
RECURSIVE notifyDescendants(_, _, _)
RECURSIVE _notifyExternalSubscribers(_, _, _, _)
RECURSIVE notifySubscriptions(_, _, _, _, _)
RECURSIVE _triggerPathSubscribers(_, _)
RECURSIVE triggerCallbacks(_, _, _)
RECURSIVE run(_, _)
RECURSIVE _createReactiveUpdate(_, _)

\* one instruction of a callback body
step(sm, ins) ==
    CASE ins.op = "get" -> getState(sm, ins.path, Null, TRUE).sm
      [] ins.op = "set" ->
            log(setState(log(sm, Ev("call", 0, ins.path, ins.val, Undef)),
                         ins.path, ins.val),
                Ev("return", 0, ins.path, ins.val, Undef))
      [] ins.op = "peek" -> getState(sm, ins.path, Null, FALSE).sm
      [] ins.op = "throw" -> [sm EXCEPT !.exc = TRUE]
      [] ins.op = "create" -> _createReactiveUpdate(sm, ins.fn)
      [] ins.op = "getIf" ->
            getState(getState(sm, ins.path, Null, TRUE).sm,
                     IF getState(sm, ins.path, Null, FALSE).value = ins.val
                     THEN ins.yes ELSE ins.no,
                     Null, TRUE).sm

\* a callback body: the instructions in order, stopping at an exception
run(sm, prog) ==
    IF prog = << >> \/ sm.exc THEN sm
    ELSE run(step(sm, Head(prog)), Tail(prog))

\* newTracking.forEach(newPath => this.subscribeInternal(newPath, callback))
RECURSIVE rebind(_, _, _)
rebind(sm, newTracking, callback) ==
    IF newTracking = << >> THEN sm
    ELSE rebind(subscribeInternal(sm, Head(newTracking), callback),
                Tail(newTracking), callback)

\* what follows callback() in the try block, or the catch block: the catch
\* block reads oldTracking, a const of the try block, so a ReferenceError
\* leaves the catch block and nothing is restored
afterCallback(ran, callback, oldTracking, newTracking) ==
    IF ran.exc THEN ran
    ELSE rebind([ran EXCEPT !.currentTracking = oldTracking],
                ran.sets[newTracking], callback)

\* new Set(subs).forEach(callback => { try {...} catch {...} }), lines 303-320
triggerCallbacks(sm, path, cbs) ==
    IF cbs = << >> \/ sm.exc THEN sm
    ELSE triggerCallbacks(
            afterCallback(
                run(log([sm EXCEPT !.sets = Append(@, << >>),
                                   !.currentTracking = Len(sm.sets) + 1],
                        Ev("internal", Head(cbs), path, Undef, Undef)),
                    Program(Head(cbs))),
                Head(cbs), sm.currentTracking, Len(sm.sets) + 1),
            path, Tail(cbs))

_triggerPathSubscribers(sm, path) ==
    IF indexOf(sm.subscribers, path) = 0 THEN sm
    ELSE triggerCallbacks(sm, path,
                          sm.subscribers[indexOf(sm.subscribers, path)].cbs)

\* the ancestors loop counting up: for (let i = 1; i < parts.length; i++)
RECURSIVE ancestorsRootFirst(_, _, _)
ancestorsRootFirst(sm, parts, i) ==
    IF i >= Len(parts) \/ sm.exc THEN sm
    ELSE ancestorsRootFirst(_triggerPathSubscribers(sm, join(SubSeq(parts, 1, i))),
                            parts, i + 1)

notifyAncestors_RootFirst(sm, parts, i) == ancestorsRootFirst(sm, parts, 1)

\* for (let i = parts.length - 1; i > 0; i--), lines 271-273
notifyAncestors(sm, parts, i) ==
    IF i <= 0 \/ sm.exc THEN sm
    ELSE notifyAncestors(_triggerPathSubscribers(sm, join(SubSeq(parts, 1, i))),
                         parts, i - 1)

\* path ? path + '.' : ''
prefixOf(path) == IF path # << >> THEN path \o <<".">> ELSE << >>

\* the body of allPaths.forEach without the test of the prefix: every other
\* subscribed path is triggered
notifyDescendant_EveryPath(sm, path, subscriberPath) ==
    IF subscriberPath # path
    THEN _triggerPathSubscribers(sm, subscriberPath)
    ELSE sm

\* the body of allPaths.forEach, lines 277-279
notifyDescendant(sm, path, subscriberPath) ==
    IF startsWith(subscriberPath, prefixOf(path)) /\ subscriberPath # path
    THEN _triggerPathSubscribers(sm, subscriberPath)
    ELSE sm

\* allPaths.forEach, lines 276-280
notifyDescendants(sm, path, allPaths) ==
    IF allPaths = << >> \/ sm.exc THEN sm
    ELSE notifyDescendants(notifyDescendant(sm, path, Head(allPaths)),
                           path, Tail(allPaths))

keysOf(entries) == [i \in 1..Len(entries) |-> entries[i].path]

\* the insertion-ordered Set of the elements of a list
RECURSIVE toSet(_, _)
toSet(acc, ks) ==
    IF ks = << >> THEN acc ELSE toSet(setAdd(acc, Head(ks)), Tail(ks))

\* new Set([...subscribers.keys(), ...externalSubscribers.keys()])
allPathsOf(sm) ==
    toSet(<< >>, keysOf(sm.subscribers) \o keysOf(sm.externalSubscribers))

\* lines 274-280, once the exact path and the ancestors have been triggered
descendantsOf(sm, path) == notifyDescendants(sm, path, allPathsOf(sm))

_notifySubscribers(sm, path) ==
    descendantsOf(
        notifyAncestors(_triggerPathSubscribers(sm, path),
                        getPathParts(path), Len(getPathParts(path)) - 1),
        path)

\* hierarchical ? (changedPath === subscribedPath ||
\*                 changedPath.startsWith(subscribedPath + '.'))
\*              : changedPath === subscribedPath
shouldNotify(hierarchical, changedPath, subscribedPath) ==
    IF hierarchical
    THEN changedPath = subscribedPath
           \/ startsWith(changedPath, subscribedPath \o <<".">>)
    ELSE changedPath = subscribedPath

\* try { callback(newValue, oldValue, changedPath) } catch { console.error }
callExternal(sm, sub, changedPath, vals) ==
    [run(log(sm, Ev("external", sub.id, changedPath, vals[1], vals[2])),
         Program(sub.callback))
     EXCEPT !.exc = FALSE]

\* subscriptions.forEach of one subscribed path, lines 285-296
notifySubscriptions(sm, subs, subscribedPath, changedPath, vals) ==
    IF subs = << >> THEN sm
    ELSE notifySubscriptions(
            IF shouldNotify(Head(subs).hierarchical, changedPath, subscribedPath)
            THEN callExternal(sm, Head(subs), changedPath, vals)
            ELSE sm,
            Tail(subs), subscribedPath, changedPath, vals)

\* this.externalSubscribers.forEach, lines 284-297; entries from the i-th on
_notifyExternalSubscribers(sm, changedPath, vals, i) ==
    IF i > Len(sm.externalSubscribers) THEN sm
    ELSE _notifyExternalSubscribers(
            notifySubscriptions(sm, sm.externalSubscribers[i].subs,
                                sm.externalSubscribers[i].path, changedPath, vals),
            changedPath, vals, i + 1)

\* lines 193-194, reached when neither notification threw
endUpdate(sm, path) ==
    IF sm.exc THEN sm
    ELSE [sm EXCEPT !.currentlyUpdating = @ \ {path}, !.isUpdating = FALSE]

\* line 191 after line 190, unless line 190 threw
thenExternal(sm, path, vals) ==
    IF sm.exc THEN sm ELSE _notifyExternalSubscribers(sm, path, vals, 1)

\* lines 187-195: if (!this.isUpdating) { ... }
notifyUpdate(sm, path, vals) ==
    IF sm.isUpdating THEN sm
    ELSE endUpdate(
            thenExternal(
                _notifySubscribers([sm EXCEPT !.isUpdating = TRUE,
                                              !.currentlyUpdating = @ \cup {path}],
                                   path),
                path, vals),
            path)

\* lines 177-186: the deepEquals test and the write into this.state
writeUpdate(sm, path, finalValue, oldValue) ==
    IF deepEquals(oldValue, finalValue) THEN sm
    ELSE notifyUpdate(
            log([sm EXCEPT !.state = writePath(@, getPathParts(path), finalValue)],
                Ev("write", 0, path, finalValue, oldValue)),
            path, <<finalValue, oldValue>>)

\* lines 168-175: the middleware loop
applyMiddleware(mw, path, oldValue) ==
    writeUpdate(mw.sm, path, mw.value, oldValue)

\* lines 165-166: oldValue = this.getState(path); finalValue = value
readOld(got, path, value) ==
    applyMiddleware(runMiddleware(got.sm, path, got.value, value, 1),
                    path, got.value)

_setStateImmediate(sm, path, value) ==
    readOld(getState(sm, path, Null, TRUE), path, value)

\* pathGroups.forEach(update => this._setStateImmediate(...)) inside try
applyPathGroups(sm, groups) ==
    IF groups = << >> \/ sm.exc THEN sm
    ELSE applyPathGroups(
            _setStateImmediate(log(sm, Ev("apply", 0, Head(groups).path,
                                          Head(groups).value, Undef)),
                               Head(groups).path, Head(groups).value),
            Tail(groups))

\* pathGroups.set(update.path, update): set() on a present key keeps its place
groupSet(groups, update) ==
    IF indexOf(groups, update.path) = 0 THEN Append(groups, update)
    ELSE [groups EXCEPT ![indexOf(groups, update.path)] = update]

\* currentBatch.forEach(update => pathGroups.set(update.path, update))
RECURSIVE pathGroupsOf(_, _)
pathGroupsOf(groups, batch) ==
    IF batch = << >> THEN groups
    ELSE pathGroupsOf(groupSet(groups, Head(batch)), Tail(batch))

Min(a, b) == IF a < b THEN a ELSE b

\* the catch and finally blocks, lines 225-230
finishBatch(sm) ==
    [sm EXCEPT !.exc = FALSE,
               !.batchUpdateInProgress = FALSE,
               !.timers = IF sm.updateQueue # << >> THEN @ + 1 ELSE @]

\* lines 212-224, for a batch of batchSize updates
processBatch(sm, batchSize) ==
    finishBatch(
        applyPathGroups(
            log([sm EXCEPT
                    !.batchUpdateInProgress = TRUE,
                    !.batchTimeout = FALSE,
                    !.armed = IF sm.batchTimeout THEN FALSE ELSE @,
                    !.updateQueue = SubSeq(@, batchSize + 1, Len(@))],
                Ev("flush", batchSize, << >>, Undef, Undef)),
            pathGroupsOf(<< >>, SubSeq(sm.updateQueue, 1, batchSize))))

_processBatchedUpdates(sm) ==
    IF sm.batchUpdateInProgress \/ sm.updateQueue = << >> THEN sm
    ELSE processBatch(sm, Min(sm.maxBatchSize, Len(sm.updateQueue)))

\* lines 201-207, after the push of line 200
afterPush(sm) ==
    IF Len(sm.updateQueue) > sm.maxBatchSize * 2
    THEN _processBatchedUpdates(sm)
    ELSE IF ~sm.batchTimeout
    THEN [sm EXCEPT !.batchTimeout = TRUE, !.armed = TRUE]
    ELSE sm

_queueUpdate(sm, path, value) ==
    afterPush(log([sm EXCEPT !.updateQueue =
                        Append(@, [path |-> path, value |-> value])],
                  Ev("queue", 0, path, value, Undef)))

\* setState without the circular-update guard
setState_NoGuard(sm, path, value) ==
    IF ~isValidPath(path) THEN sm
    ELSE IF sm.batchingEnabled /\ sm.batchDelayMs > 0
    THEN _queueUpdate(sm, path, value)
    ELSE _setStateImmediate(sm, path, value)

\* setState queueing whenever batching is enabled, a zero delay included
setState_QueueAtZeroDelay(sm, path, value) ==
    IF ~isValidPath(path) \/ _hasCircularUpdate(sm, path) THEN sm
    ELSE IF sm.batchingEnabled /\ sm.batchDelayMs >= 0
    THEN _queueUpdate(sm, path, value)
    ELSE _setStateImmediate(sm, path, value)

setState(sm, path, value) ==
    IF ~isValidPath(path) \/ _hasCircularUpdate(sm, path) THEN sm
    ELSE IF sm.batchingEnabled /\ sm.batchDelayMs > 0
    THEN _queueUpdate(sm, path, value)
    ELSE _setStateImmediate(sm, path, value)

\* ------------------------------------------------------------------------
\* The other operations
\* ------------------------------------------------------------------------
\* StateManager.subscribe; the subscription object is identified by id
subscribe(sm, path, callback, hierarchical) ==
    LET i == indexOf(sm.externalSubscribers, path)
        subscription == [id |-> sm.nextSub, callback |-> callback,
                         hierarchical |-> hierarchical]
        added == IF i = 0
                 THEN [sm EXCEPT !.externalSubscribers =
                          Append(@, [path |-> path, subs |-> <<subscription>>])]
                 ELSE [sm EXCEPT !.externalSubscribers[i].subs =
                          Append(@, subscription)]
    IN [added EXCEPT !.nextSub = @ + 1]

subscribeExact(sm, path, callback) == subscribe(sm, path, callback, FALSE)

\* an unsubscribe that drops the whole Set of the path
unsubscribe_WholePath(sm, path, id) ==
    LET i == indexOf(sm.externalSubscribers, path)
    IN IF i = 0 THEN sm
       ELSE [sm EXCEPT !.externalSubscribers = RemoveAt(@, i)]

\* the function subscribe() returned for (path, subscription id)
unsubscribe(sm, path, id) ==
    LET i == indexOf(sm.externalSubscribers, path)
        left == SelectSeq(sm.externalSubscribers[i].subs, LAMBDA sub : sub.id # id)
    IN IF i = 0 THEN sm
       ELSE IF left = << >>
       THEN [sm EXCEPT !.externalSubscribers = RemoveAt(@, i)]
       ELSE [sm EXCEPT !.externalSubscribers[i].subs = left]

\* lines 1593-1599: the finally block and dependencies.forEach; an exception
\* of updateFn has been caught
bindDependencies(ran, dependencies, originalTracking, updateFn) ==
    rebind([ran EXCEPT !.exc = FALSE, !.currentTracking = originalTracking],
           ran.sets[dependencies], updateFn)

\* DOMRenderer._createReactiveUpdate(element, updateFn, subscriptions):
\* startTracking() has already made dependencies the current set when
\* originalTracking is read, so originalTracking is dependencies
_createReactiveUpdate(sm, updateFn) ==
    bindDependencies(
        run([sm EXCEPT !.sets = Append(@, << >>),
                       !.currentTracking = Len(sm.sets) + 1],
            Program(updateFn)),
        Len(sm.sets) + 1, Len(sm.sets) + 1, updateFn)

\* options is a record holding the options that are given (not undefined)
configureBatching(sm, options) ==
    [sm EXCEPT
        !.maxBatchSize =
            IF "maxBatchSize" \in DOMAIN options /\ options.maxBatchSize # 0
            THEN options.maxBatchSize ELSE @,
        !.batchDelayMs =
            IF "batchDelayMs" \in DOMAIN options THEN options.batchDelayMs ELSE @,
        !.batchingEnabled =
            IF "enabled" \in DOMAIN options THEN options.enabled ELSE @]

\* Symbol(description): every call makes a symbol of its own, told apart
\* here by the serial number of the call
Symbol(description, serial) ==
    [k |-> "symbol", description |-> description, serial |-> serial]

\* the decimal digits of a template literal `${instanceIndex}`
Digits == <<"0", "1", "2", "3", "4", "5", "6", "7", "8", "9">>
RECURSIVE toString(_)
toString(n) ==
    IF n < 10 THEN <<Digits[n + 1]>>
    ELSE toString(n \div 10) \o <<Digits[(n % 10) + 1]>>

Str(s) == [k |-> "string", s |-> s]

\* element.textContent = v: the setter stores the string of the value,
\* the empty string for null
toText(v) ==
    CASE v.k = "number" -> toString(v.n)
      [] v.k = "string" -> v.s
      [] OTHER -> << >>

\* _setupComponent, lines 477-484: the counters after the call and the
\* componentId `${name}_${instanceIndex}`
_setupComponent(counters, name) ==
    [counters |-> [counters EXCEPT ![name] = @ + 1],
     componentId |-> name \o <<"_">> \o toString(counters[name] + 1)]

\* `__local.${componentId}.${key}`, line 489
statePathOf(componentId, key) ==
    <<"_", "_", "l", "o", "c", "a", "l", ".">> \o componentId \o <<".">> \o key

\* lines 490-492: the value read with one fresh symbol as the default is
\* compared with another fresh symbol
storeInitial(got, statePath, initialValue) ==
    IF got.value = Symbol("not-found", 2)
    THEN setState(got.sm, statePath, initialValue)
    ELSE got.sm

\* context.newState(key, initialValue), lines 488-498: the StateManager
\* after the call; the pair it returns is the two closures over statePath
\* and initialValue
newState(sm, statePath, initialValue) ==
    storeInitial(getState(sm, statePath, Symbol("not-found", 1), TRUE),
                 statePath, initialValue)

\* the getter of the pair, line 495
getter(sm, pair) == getState(sm, pair.statePath, pair.initialValue, TRUE)

\* the setter of the pair, line 496
setter(sm, pair, value) == setState(sm, pair.statePath, value)

\* JSON.parse(JSON.stringify(value)): a property that holds undefined is
\* left out
RECURSIVE jsonClone(_)
jsonClone(v) ==
    IF v.k # "object" THEN v
    ELSE Obj([x \in {y \in DOMAIN v.f : v.f[y] # Undef} |-> jsonClone(v.f[x])])

\* an object whose keys are listed in insertion order: the entries
\* [path, value] of Object.entries
entryPut(entries, path, value) ==
    IF \E i \in 1..Len(entries) : entries[i].path = path
    THEN [i \in 1..Len(entries) |->
             IF entries[i].path = path
             THEN [path |-> path, value |-> value] ELSE entries[i]]
    ELSE Append(entries, [path |-> path, value |-> value])

\* JSON.parse(JSON.stringify(initialState)), line 128
RECURSIVE cloneEntries(_)
cloneEntries(entries) ==
    IF entries = << >> THEN << >>
    ELSE IF Head(entries).value = Undef THEN cloneEntries(Tail(entries))
    ELSE <<[path |-> Head(entries).path,
            value |-> jsonClone(Head(entries).value)]>>
         \o cloneEntries(Tail(entries))

\* { ...initialState }, line 116
RECURSIVE spread(_, _)
spread(f, entries) ==
    IF entries = << >> THEN f
    ELSE spread(Put(f, Head(entries).path, Head(entries).value),
                Tail(entries))

\* preserve.forEach(path => ...), lines 133-136
RECURSIVE collectPreserved(_, _, _)
RECURSIVE keepRead(_, _, _, _)
collectPreserved(sm, preserve, preserved) ==
    IF preserve = << >> THEN [sm |-> sm, preserved |-> preserved]
    ELSE keepRead(getState(sm, Head(preserve), Null, TRUE),
                  Head(preserve), Tail(preserve), preserved)
keepRead(got, path, rest, preserved) ==
    collectPreserved(got.sm, rest,
                     IF got.value # Null
                     THEN entryPut(preserved, path, got.value)
                     ELSE preserved)

\* Object.entries(this.initialState).forEach(...), lines 138-139
RECURSIVE restoreInitial(_, _)
restoreInitial(sm, entries) ==
    IF entries = << >> \/ sm.exc THEN sm
    ELSE restoreInitial(
             setState(sm, Head(entries).path, jsonClone(Head(entries).value)),
             Tail(entries))

\* Object.entries(preserved).forEach(...), line 140
RECURSIVE restorePreserved(_, _)
restorePreserved(sm, entries) ==
    IF entries = << >> \/ sm.exc THEN sm
    ELSE restorePreserved(
             setState(sm, Head(entries).path, Head(entries).value),
             Tail(entries))

\* lines 137-140
afterCollect(c) ==
    restorePreserved(
        restoreInitial([c.sm EXCEPT !.state = EmptyObj], c.sm.initialState),
        c.preserved)

\* StateManager.reset, lines 131-141
reset(sm, preserve) == afterCollect(collectPreserved(sm, preserve, << >>))

\* ------------------------------------------------------------------------
\* State
\* ------------------------------------------------------------------------
VARIABLES state, initialState, middleware, subscribers, externalSubscribers,
          currentTracking, isUpdating, currentlyUpdating, updateQueue,
          batchTimeout, batchUpdateInProgress, maxBatchSize, batchDelayMs,
          batchingEnabled, armed, timers, nextSub

\* the StateManager
smVars == <<state, initialState, middleware, subscribers, externalSubscribers,
            currentTracking, isUpdating, currentlyUpdating, updateQueue,
            batchTimeout, batchUpdateInProgress, maxBatchSize, batchDelayMs,
            batchingEnabled, armed, timers, nextSub>>

\* The closure of createPromisify (activePromises, isTracking and its
\* subscribers, here completionSubscribers), the promises handed to
\* promisify, the two task queues of the event loop, the number of times
\* each completion callback of the clients has run, how many drains of the
\* in-flight set each registered callback has not been told about yet
\* (owed: a record of the past, the code keeps no such field), and the
\* document during a hydration render.
VARIABLES promises, activePromises, isTracking, completionSubscribers,
          microtasks, timeouts, invoked, owed, container, staging, hydration

asyncVars == <<promises, activePromises, isTracking, completionSubscribers,
               microtasks, timeouts, invoked, owed, container, staging,
               hydration>>

\* The DOMRenderer: the elements it has created (a node's position in
\* nodes is its identity), its element cache, recycle pool, render mode and
\* failure count, and the closures that _handleChildrenOptimized and
\* _handleReactiveChildren created for reactive children.
VARIABLES nodes, elementCache, recyclePool, renderMode, failureCount,
          closures

\* The ComponentManager: the promises it waits for behind a placeholder,
\* each with its placeholder and its then/catch handlers (jobs), and its
\* cache of resolved async props.
VARIABLES jobs, asyncPropsCache

\* The WeakMap subscriptions of the DOMRenderer: for an element with
\* reactive props, the unsubscribe functions its bindings were set up with,
\* each the (path, callback) it closes over.
VARIABLES subscriptions

\* The text an element shows (element.textContent, for the elements whose
\* text was set), and the then/catch handlers that reactive bindings have
\* attached to the promises their functions returned, in the order of the
\* evaluations, each with the closure it belongs to and what its promise
\* settles to.
VARIABLES textContent, thens

domVars == <<nodes, elementCache, recyclePool, renderMode, failureCount,
             closures, jobs, asyncPropsCache, subscriptions, textContent,
             thens>>

\* The component instances: componentCounters of the ComponentManager, and
\* the [getter, setter] pairs that context.newState has handed out, each
\* with the statePath and the initialValue its two closures hold.
VARIABLES componentCounters, localStates

\* The WeakMaps instances and componentStates of the ComponentManager, keyed
\* by element, and the instance objects that create has made and whose
\* element has not been cleaned up since (created): for each its
\* componentId, the element create returned for it, the state paths its
\* newState calls allocated and its onUnmount hook.
VARIABLES instances, componentStates, created

\* The then-callbacks of updateInstance and _performUpdate that have not run
\* yet: the one that waits for the resolved props of an update, and the one
\* that patches the content of the element with the new render result.
VARIABLES updates

\* The callbacks of setTimeout(..., 0) of _createLifecycleComponent that have
\* not run yet, in the order they were scheduled; each holds the instance
\* whose onMount hook it calls.
VARIABLES mountTimers

localVars == <<componentCounters, localStates, instances, componentStates,
               created, updates, mountTimers>>

vars == <<smVars, asyncVars, domVars, localVars>>

\* Between two top-level calls the variable currentTracking tells whether
\* the slot is null or still holds a Set ("stale").  A Set left in the slot
\* has no owner any more: the call that created it has returned, add() is
\* still applied to it but nothing reads what it holds, so its content is
\* not kept.

\* the StateManager as it stands between two top-level calls
Self ==
    [state |-> state, initialState |-> initialState,
     middleware |-> middleware, subscribers |-> subscribers,
     externalSubscribers |-> externalSubscribers,
     sets |-> IF currentTracking = "stale" THEN << << >> >> ELSE << >>,
     currentTracking |-> IF currentTracking = "stale" THEN 1 ELSE 0,
     isUpdating |-> isUpdating, currentlyUpdating |-> currentlyUpdating,
     updateQueue |-> updateQueue, batchTimeout |-> batchTimeout,
     batchUpdateInProgress |-> batchUpdateInProgress,
     maxBatchSize |-> maxBatchSize, batchDelayMs |-> batchDelayMs,
     batchingEnabled |-> batchingEnabled, armed |-> armed, timers |-> timers,
     nextSub |-> nextSub, calls |-> << >>, exc |-> FALSE]

\* the fields of the StateManager after a call that left it as r
BecomesStateManager(r) ==
    /\ state' = r.state
    /\ initialState' = r.initialState
    /\ middleware' = r.middleware
    /\ subscribers' = r.subscribers
    /\ externalSubscribers' = r.externalSubscribers
    /\ currentTracking' = IF r.currentTracking = 0 THEN "null" ELSE "stale"
    /\ isUpdating' = r.isUpdating
    /\ currentlyUpdating' = r.currentlyUpdating
    /\ updateQueue' = r.updateQueue
    /\ batchTimeout' = r.batchTimeout
    /\ batchUpdateInProgress' = r.batchUpdateInProgress
    /\ maxBatchSize' = r.maxBatchSize
    /\ batchDelayMs' = r.batchDelayMs
    /\ batchingEnabled' = r.batchingEnabled
    /\ armed' = r.armed
    /\ timers' = r.timers
    /\ nextSub' = r.nextSub

\* the top-level call returned (or threw) leaving the object as r
Becomes(r) ==
    /\ BecomesStateManager(r)
    /\ UNCHANGED <<asyncVars, domVars, localVars>>

\* ------------------------------------------------------------------------
\* Bounds and input sets
\* ------------------------------------------------------------------------
MaxSubs == 2
MaxReactive == 2
MaxQueue == 3
MaxTimers == 1
MaxMiddleware == 2
DefaultMaxBatchSize == 50
DefaultBatchDelayMs == 0
DelayMs == 10

ReactiveFns == {"rAll", "rSet", "rCirc", "rThrow"}
\* subscribe(path, callback, hierarchical) calls of the clients
Subscriptions ==
    { <<pA, "eObs", TRUE>>, <<pA, "eObs", FALSE>>, <<pAB, "eObs", TRUE>>,
      <<pAx, "eObs", FALSE>>, <<pA, "eThrow", TRUE>> }
BatchPaths == {pA, pAB}
MiddlewareFns == {"mwObserve", "mwThrow", "mwCap"}
BatchOptions ==
    { [enabled |-> TRUE, batchDelayMs |-> DefaultBatchDelayMs,
       maxBatchSize |-> DefaultMaxBatchSize],
      [batchDelayMs |-> DelayMs, maxBatchSize |-> 1],
      [batchDelayMs |-> DelayMs, maxBatchSize |-> DefaultMaxBatchSize] }

\* the reactive functions bound to some path
boundFns == UNION { {e.cbs[i] : i \in 1..Len(e.cbs)} :
                      e \in {subscribers[j] : j \in 1..Len(subscribers)} }

MaxPromises == 2
MaxTimeouts == 2
MaxInvoked == 2
\* the completion callbacks of the clients; each counts its own runs
CompletionCallbacks == {"cb1", "cb2"}
\* onAllComplete() called with no argument registers undefined
NoCallback == "undefined"

\* createPromisify() at module load, lines 67-70 and 111, in a document
\* whose container shows its live content
createPromisify ==
    /\ promises = << >>
    /\ activePromises = {}
    /\ isTracking = FALSE
    /\ completionSubscribers = << >>
    /\ microtasks = << >>
    /\ timeouts = << >>
    /\ invoked = [c \in CompletionCallbacks |-> 0]
    /\ owed = [c \in CompletionCallbacks |-> 0]
    /\ container = "live"
    /\ staging = FALSE
    /\ hydration = "none"

maxFailures == 3
recyclePoolSize == 100
ElementTags == {"li", "p"}
\* every tag an element of the model can have
NodeTags == ElementTags \cup {"ul", "span", "div"}

\* new DOMRenderer(juris), lines 802-819, and the renderMode of the
\* configuration, lines 2200-2201
newDOMRenderer(mode) ==
    /\ nodes = << >>
    /\ elementCache = << >>
    /\ recyclePool = [t \in NodeTags |-> << >>]
    /\ renderMode = mode
    /\ failureCount = 0
    /\ closures = << >>
    /\ jobs = << >>
    /\ asyncPropsCache = NoCache
    /\ subscriptions = EmptyObj
    /\ textContent = EmptyObj
    /\ thens = << >>

\* the registered components whose function calls context.newState
LocalComponents == {<<"O", "k">>, <<"T", "o", "d", "o">>}
\* the registered components that return an object with hooks and render,
\* or that allocate local state and return a vnode
LifecycleComponents == {<<"L">>, <<"T">>, <<"W">>, <<"P">>}
\* the registered components that return an object with an onMount hook
MountedComponents == {<<"M">>}

\* new ComponentManager(juris), lines 441-449: no instance counted yet
newComponentManager ==
    /\ componentCounters =
           [name \in LocalComponents \cup LifecycleComponents
                     \cup MountedComponents |-> 0]
    /\ localStates = << >>
    /\ instances = EmptyObj
    /\ componentStates = EmptyObj
    /\ created = << >>
    /\ updates = << >>
    /\ mountTimers = << >>

\* new StateManager(initialState, middleware), lines 115-129; initial lists
\* the entries of config.states
newStateManager(initial, mws) ==
    /\ state = spread(EmptyObj, initial)
    /\ initialState = cloneEntries(initial)
    /\ middleware = mws
    /\ subscribers = << >>
    /\ externalSubscribers = << >>
    /\ currentTracking = "null"
    /\ isUpdating = FALSE
    /\ currentlyUpdating = {}
    /\ updateQueue = << >>
    /\ batchTimeout = FALSE
    /\ batchUpdateInProgress = FALSE
    /\ maxBatchSize = DefaultMaxBatchSize
    /\ batchDelayMs = DefaultBatchDelayMs
    /\ batchingEnabled = TRUE
    /\ armed = FALSE
    /\ timers = 0
    /\ nextSub = 1

\* new Juris(config), with the renderer in the mode of config.renderMode
newJuris(initial, mws, mode) ==
    /\ newStateManager(initial, mws)
    /\ createPromisify
    /\ newDOMRenderer(mode)
    /\ newComponentManager

\* no initial state: initialState = {}
InitJuris(mws, mode) == newJuris(<< >>, mws, mode)

\* the default configuration: fine-grained rendering
InitWith(mws) == InitJuris(mws, "fine-grained")

\* ------------------------------------------------------------------------
\* Actions: one per top-level call or timer callback
\* ------------------------------------------------------------------------
SetState(P, V) ==
    \E path \in P, value \in V :
        /\ Len(updateQueue) < MaxQueue
        /\ timers < MaxTimers
        /\ Becomes(setState(Self, path, value))

Subscribe(S) ==
    \E sub \in S :
        /\ nextSub <= MaxSubs
        /\ Becomes(subscribe(Self, sub[1], sub[2], sub[3]))

Unsubscribe ==
    \E i \in 1..Len(externalSubscribers) :
        \E j \in 1..Len(externalSubscribers[i].subs) :
            Becomes(unsubscribe(Self, externalSubscribers[i].path,
                                externalSubscribers[i].subs[j].id))

CreateReactiveUpdate(C) ==
    \E updateFn \in C :
        /\ updateFn \notin boundFns
        /\ Cardinality(boundFns) < MaxReactive
        /\ Becomes(_createReactiveUpdate(Self, updateFn))

ConfigureBatching(O) ==
    \E options \in O : Becomes(configureBatching(Self, options))

\* the timer set by _queueUpdate fires
BatchTimeoutFires ==
    /\ armed
    /\ Becomes(_processBatchedUpdates([Self EXCEPT !.armed = FALSE]))

\* a timer set by the finally block of _processBatchedUpdates fires
FollowUpFires ==
    /\ timers > 0
    /\ Becomes(_processBatchedUpdates([Self EXCEPT !.timers = @ - 1]))

\* --- synchronous notification: no middleware, default batching ---
Init == InitWith(<< >>)

Next ==
    \/ SetState(ValidPaths, {Num(1), Num(2)})
    \/ Subscribe(Subscriptions)
    \/ Unsubscribe
    \/ CreateReactiveUpdate(ReactiveFns)

Spec == Init /\ [][Next]_vars

\* --- the middleware pipeline: any list of up to MaxMiddleware functions ---
MiddlewareLists ==
    UNION { [1..n -> MiddlewareFns] : n \in 0..MaxMiddleware }

InitMw == \E mws \in MiddlewareLists : InitWith(mws)

NextMw ==
    \/ SetState(BatchPaths, Values)
    \/ Subscribe({<<pA, "eObs", TRUE>>})
    \/ CreateReactiveUpdate({"rSet", "rCirc", "rThrow"})

SpecMw == InitMw /\ [][NextMw]_vars

\* --- batching: the queue, its timers and configureBatching ---
InitBatch == InitWith(<<"mwObserve">>)

NextBatch ==
    \/ SetState(BatchPaths \cup InvalidPaths, {Num(1), Num(2)})
    \/ ConfigureBatching(BatchOptions)
    \/ BatchTimeoutFires
    \/ FollowUpFires
    \/ CreateReactiveUpdate({"rCirc", "rThrow"})

SpecBatch == InitBatch /\ [][NextBatch]_vars

\* --- dependency tracking: callbacks whose reads change from run to run ---
NextTrack ==
    \/ SetState(ValidPaths, {Num(1), Num(2)})
    \/ CreateReactiveUpdate({"rCond", "rAll", "rThrow"})

SpecTrack == Init /\ [][NextTrack]_vars

\* --- reset: a configured initial state, writes, batching and reset ---
\* config.states: the entries of the initial state
InitialStates ==
    { << >>,
      <<[path |-> pA, value |-> Num(1)]>>,
      <<[path |-> pA, value |-> ObjB1]>>,
      <<[path |-> pA, value |-> Num(1)], [path |-> pAx, value |-> Num(2)]>> }
\* the preserve argument of reset
PreserveLists == { << >>, <<pA>>, <<pAB>>, <<pAx>>, <<pA, pAB>> }

Reset ==
    \E preserve \in PreserveLists :
        /\ Len(updateQueue) < MaxQueue
        /\ timers < MaxTimers
        /\ Becomes(reset(Self, preserve))

InitReset == \E initial \in InitialStates : newJuris(initial, << >>, "fine-grained")

NextReset ==
    \/ SetState({pA, pAB}, {Null, Num(2)})
    \/ ConfigureBatching(BatchOptions)
    \/ BatchTimeoutFires
    \/ FollowUpFires
    \/ Reset

SpecReset == InitReset /\ [][NextReset]_vars

\* --- component-local state: instances that call context.newState ---
MaxInstances == 2
MaxLocalStates == 2
LocalKeys == {<<"n">>, <<"o", "n">>}
InitialValues == {Null, Num(1), ObjB1}

\* create(name) for a component whose function calls
\* context.newState(key, initialValue): lines 465-467
afterSetup(setup, key, initialValue) ==
    /\ componentCounters' = setup.counters
    /\ localStates' = Append(localStates,
                             [statePath |-> statePathOf(setup.componentId, key),
                              initialValue |-> initialValue])
    /\ BecomesStateManager(
           newState(Self, statePathOf(setup.componentId, key), initialValue))
    /\ UNCHANGED <<asyncVars, domVars, instances, componentStates, created,
                   updates, mountTimers>>

CreateWithState ==
    \E name \in LocalComponents, key \in LocalKeys,
       initialValue \in InitialValues :
        /\ componentCounters[name] < MaxInstances
        /\ Len(localStates) < MaxLocalStates
        /\ afterSetup(_setupComponent(componentCounters, name),
                      key, initialValue)

\* the component calls the setter of one of its pairs
SetLocalTo(V) ==
    \E i \in 1..Len(localStates), value \in V :
        Becomes(setter(Self, localStates[i], value))

SetLocal == SetLocalTo(Values)

NextLocal ==
    \/ CreateWithState
    \/ SetLocal

SpecLocal == Init /\ [][NextLocal]_vars

\* ------------------------------------------------------------------------
\* The async-completion tracker (createPromisify, lines 67-111), the event
\* loop that runs its handlers, and the hydration render (lines 2342-2363)
\* ------------------------------------------------------------------------
\* what is handed to promisify: a promise still pending (a thenable) or a
\* value that is no thenable
Results == {"thenable", "plain"}
\* setTimeout(undefined, 0): a browser takes the argument for source text
\* and the timer does nothing, Node's setTimeout throws a TypeError
TimerOutcomes == {"ignored", "throws"}
Layouts == UNION { [1..n -> Results] : n \in 0..MaxPromises }

\* the closure and the document as they stand between two tasks
Tracker ==
    [promises |-> promises, activePromises |-> activePromises,
     isTracking |-> isTracking,
     completionSubscribers |-> completionSubscribers,
     microtasks |-> microtasks, timeouts |-> timeouts, invoked |-> invoked,
     owed |-> owed, container |-> container, staging |-> staging,
     hydration |-> hydration, exc |-> FALSE]

\* the task ended leaving the closure and the document as t
BecomesTracker(t) ==
    /\ promises' = t.promises
    /\ activePromises' = t.activePromises
    /\ isTracking' = t.isTracking
    /\ completionSubscribers' = t.completionSubscribers
    /\ microtasks' = t.microtasks
    /\ timeouts' = t.timeouts
    /\ invoked' = t.invoked
    /\ owed' = t.owed
    /\ container' = t.container
    /\ staging' = t.staging
    /\ hydration' = t.hydration
    /\ UNCHANGED <<smVars, domVars, localVars>>

Task(type, of) == [type |-> type, of |-> of]

\* line 75: result?.then ? result : Promise.resolve(result); a value that
\* is no thenable gives a promise already fulfilled
promiseOf(t, result, staged) ==
    [t EXCEPT !.promises =
        Append(@, [state |-> IF result = "plain" THEN "fulfilled"
                             ELSE "pending",
                   staged |-> staged])]

\* lines 78-82: activePromises.add(promise); promise.finally(...), whose
\* handler is queued at once as the promise is fulfilled already
track(t, promise) ==
    [t EXCEPT !.activePromises = @ \cup {promise},
              !.microtasks = Append(@, Task("finally", promise))]

\* trackingPromisify, lines 74-86: promise !== result holds for the values
\* that were wrapped only
trackingPromisify(t, result, staged) ==
    IF t.isTracking /\ result = "plain"
    THEN track(promiseOf(t, result, staged), Len(t.promises) + 1)
    ELSE promiseOf(t, result, staged)

\* the in-flight set just went from non-empty to empty while tracking
drained(t, promise) ==
    t.isTracking /\ t.activePromises = {promise}

\* the handler of promise.finally, lines 79-82
finallyHandler(t, promise) ==
    [t EXCEPT !.activePromises = @ \ {promise},
              !.timeouts = Append(@, Task("check", NoCallback)),
              !.owed = [c \in CompletionCallbacks |->
                          IF drained(t, promise)
                             /\ InSeq(c, t.completionSubscribers)
                          THEN @[c] + 1 ELSE @[c]]]

\* callback() for a callback of the clients
callback(t, c) ==
    [t EXCEPT !.invoked[c] = @ + 1,
              !.owed[c] = IF @ > 0 THEN @ - 1 ELSE 0]

\* subscribers.forEach(callback => callback()), line 70: calling undefined
\* throws, which ends the iteration
RECURSIVE forEachCallback(_, _)
forEachCallback(t, cbs) ==
    IF cbs = << >> THEN t
    ELSE IF Head(cbs) = NoCallback THEN t
    ELSE forEachCallback(callback(t, Head(cbs)), Tail(cbs))

\* checkAllComplete, lines 68-72
checkAllComplete(t) ==
    IF t.activePromises = {} /\ Len(t.completionSubscribers) > 0
    THEN forEachCallback(t, t.completionSubscribers)
    ELSE t

\* startTracking, lines 90-93
startTracking(t) ==
    [t EXCEPT !.isTracking = TRUE, !.activePromises = {}]

\* stopTracking, lines 94-97
stopTracking(t) ==
    [t EXCEPT !.isTracking = FALSE, !.completionSubscribers = << >>,
              !.owed = [c \in CompletionCallbacks |-> 0]]

\* setTimeout(callback, 0), line 101
setTimeoutCallback(t, c, outcome) ==
    IF c = NoCallback /\ outcome = "throws"
    THEN [t EXCEPT !.exc = TRUE]
    ELSE [t EXCEPT !.timeouts = Append(@, Task("callback", c))]

\* onAllComplete, lines 98-104
onAllComplete(t, c, outcome) ==
    IF t.activePromises = {}
    THEN setTimeoutCallback(
             [t EXCEPT !.completionSubscribers = setAdd(@, c)], c, outcome)
    ELSE [t EXCEPT !.completionSubscribers = setAdd(@, c)]

\* the function onAllComplete returns, line 103
unsubscribeCompletion(t, c) ==
    [t EXCEPT !.completionSubscribers =
                  SelectSeq(@, LAMBDA x : x # c),
              !.owed = [@ EXCEPT ![c] = 0]]

\* the timer of line 101 fires
timeoutCallback(t, c) ==
    IF c = NoCallback THEN t ELSE callback(t, c)

\* domRenderer.render(this.layout), line 2349, as far as the tracker sees
\* it: the results it hands to promisify, in order
RECURSIVE renderLayout(_, _)
renderLayout(t, layout) ==
    IF layout = << >> THEN t
    ELSE renderLayout(trackingPromisify(t, Head(layout), TRUE),
                      Tail(layout))

\* the finally block, lines 2359-2362
hydrationFinally(t, outcome) ==
    [stopTracking(t) EXCEPT !.staging = FALSE, !.hydration = outcome,
                            !.exc = FALSE]

\* await onAllComplete(), line 2352: the value awaited is the function
\* onAllComplete returns, so the rest of the body is queued as a microtask;
\* an exception of onAllComplete goes to the finally block
awaitOnAllComplete(t) ==
    IF t.exc THEN hydrationFinally(t, "rejected")
    ELSE [t EXCEPT !.hydration = "awaiting",
                   !.microtasks = Append(@, Task("resume", 0))]

\* _renderWithHydration up to its await, lines 2343-2352
_renderWithHydration(t, layout, outcome) ==
    awaitOnAllComplete(
        onAllComplete(
            renderLayout(startTracking([t EXCEPT !.staging = TRUE]),
                         layout),
            NoCallback, outcome))

\* _renderWithHydration after its await, lines 2354-2362
resumeHydration(t) ==
    hydrationFinally([t EXCEPT !.container = "staged"], "resolved")

\* one microtask
runMicrotask(t, task) ==
    IF task.type = "finally" THEN finallyHandler(t, task.of)
    ELSE resumeHydration(t)

\* one timer
runTimeout(t, task) ==
    IF task.type = "check" THEN checkAllComplete(t)
    ELSE timeoutCallback(t, task.of)

StartTracking ==
    \E t \in {startTracking(Tracker)} : BecomesTracker(t)

StopTracking ==
    \E t \in {stopTracking(Tracker)} : BecomesTracker(t)

Promisify ==
    \E result \in Results :
        /\ Len(promises) < MaxPromises
        /\ BecomesTracker(trackingPromisify(Tracker, result, FALSE))

OnAllComplete ==
    \E c \in CompletionCallbacks :
        /\ Len(timeouts) < MaxTimeouts
        /\ invoked[c] < MaxInvoked
        /\ BecomesTracker(onAllComplete(Tracker, c, "ignored"))

UnsubscribeCompletion ==
    \E c \in CompletionCallbacks :
        /\ InSeq(c, completionSubscribers)
        /\ BecomesTracker(unsubscribeCompletion(Tracker, c))

\* a pending promise is fulfilled or rejected by its owner
Settle ==
    \E p \in 1..Len(promises), outcome \in {"fulfilled", "rejected"} :
        /\ promises[p].state = "pending"
        /\ BecomesTracker([Tracker EXCEPT !.promises[p].state = outcome])

\* the event loop runs the oldest microtask
RunMicrotask ==
    /\ microtasks # << >>
    /\ BecomesTracker(runMicrotask([Tracker EXCEPT !.microtasks = Tail(@)],
                                   Head(microtasks)))

\* the event loop runs the oldest timer once no microtask is left
RunTimeout ==
    /\ microtasks = << >>
    /\ timeouts # << >>
    /\ BecomesTracker(runTimeout([Tracker EXCEPT !.timeouts = Tail(@)],
                                 Head(timeouts)))

\* juris.render(container) with isHydration set, lines 2324-2332
RenderWithHydration ==
    \E layout \in Layouts, outcome \in TimerOutcomes :
        /\ hydration = "none"
        /\ Len(promises) + Len(layout) <= MaxPromises
        /\ BecomesTracker(_renderWithHydration(Tracker, layout, outcome))

NextAsync ==
    \/ StartTracking
    \/ StopTracking
    \/ Promisify
    \/ OnAllComplete
    \/ UnsubscribeCompletion
    \/ Settle
    \/ RunMicrotask
    \/ RunTimeout
    \/ RenderWithHydration

SpecAsync == Init /\ [][NextAsync]_vars

\* ------------------------------------------------------------------------
\* The DOMRenderer (lines 802-1692) and ComponentManager.create (lines
\* 455-475, 551-605, 777-782) on virtual nodes of depth two: an element with
\* a children list whose items are elements without children or registered
\* components.  The only props of the model are key and children.
\* ------------------------------------------------------------------------
NoKey == ""
\* a tag document.createElement rejects with an InvalidCharacterError
InvalidTag == "1x"

\* the registered components: Ok returns {span: {}}, Throws throws an Error,
\* ThrowsNull executes `throw null`, RenderThrows returns an object whose
\* render() throws an Error, AsyncFn returns a promise of {span: {}} and
\* AsyncRender an object whose render() returns such a promise
SyncComponents == {"Ok", "Throws", "ThrowsNull", "RenderThrows"}
AsyncComponents == {"AsyncFn", "AsyncRender"}
Components == SyncComponents \cup AsyncComponents

\* {tag: {key}}, {tag: {key, children}} and {tag: {data: promise}}; fn
\* tells that children is a function, async that a prop is a promise
Leaf(tag, key) ==
    [tag |-> tag, key |-> key, has |-> FALSE, fn |-> FALSE, kids |-> << >>,
     async |-> FALSE]
WithChildren(tag, key, kids, fn) ==
    [tag |-> tag, key |-> key, has |-> TRUE, fn |-> fn, kids |-> kids,
     async |-> FALSE]
\* {tag: {key, text}}
TextLeaf(tag, key, text) ==
    [tag |-> tag, key |-> key, has |-> FALSE, fn |-> FALSE, kids |-> << >>,
     async |-> FALSE, text |-> text]
WithAsyncProp(tag) ==
    [tag |-> tag, key |-> NoKey, has |-> FALSE, fn |-> FALSE,
     kids |-> << >>, async |-> TRUE]

DomNode(tag, kind) ==
    [tag |-> tag, kind |-> kind, key |-> NoKey, children |-> << >>]

\* the renderer between two top-level calls; ret is the value a call
\* returns, thrown the exception in flight ("" for none, "null" for the
\* value null, "Error" for an object with a message), fragment the
\* DocumentFragment of the children list being built, and out, oldByKey,
\* used the locals newChildElements, oldChildrenByKey, usedElements of
\* _reconcileChildren
Renderer ==
    [nodes |-> nodes, elementCache |-> elementCache,
     recyclePool |-> recyclePool, renderMode |-> renderMode,
     failureCount |-> failureCount, closures |-> closures, jobs |-> jobs,
     asyncPropsCache |-> asyncPropsCache, subscriptions |-> subscriptions,
     textContent |-> textContent, thens |-> thens,
     fresh |-> FALSE, ret |-> 0,
     thrown |-> "", fragment |-> << >>, out |-> << >>, oldByKey |-> << >>,
     used |-> {}]

BecomesDom(d) ==
    /\ nodes' = d.nodes
    /\ elementCache' = d.elementCache
    /\ recyclePool' = d.recyclePool
    /\ renderMode' = d.renderMode
    /\ failureCount' = d.failureCount
    /\ closures' = d.closures
    /\ jobs' = d.jobs
    /\ asyncPropsCache' = d.asyncPropsCache
    /\ subscriptions' = d.subscriptions
    /\ textContent' = d.textContent
    /\ thens' = d.thens

BecomesRenderer(d) ==
    /\ BecomesDom(d)
    /\ UNCHANGED <<smVars, asyncVars, localVars>>

throw(d, what) == [d EXCEPT !.thrown = what]
caught(d) == [d EXCEPT !.thrown = ""]
returning(d, el) == IF d.thrown # "" THEN d ELSE [d EXCEPT !.ret = el]

\* Map.prototype.get, set and delete on a sequence of [key, el] entries
mapGet(m, key) ==
    IF \E i \in 1..Len(m) : m[i].key = key
    THEN m[CHOOSE i \in 1..Len(m) : m[i].key = key].el
    ELSE 0
mapSet(m, key, el) ==
    IF \E i \in 1..Len(m) : m[i].key = key
    THEN [i \in 1..Len(m) |->
             IF m[i].key = key THEN [key |-> key, el |-> el] ELSE m[i]]
    ELSE Append(m, [key |-> key, el |-> el])
mapDelete(m, key) == SelectSeq(m, LAMBDA e : e.key # key)

\* document.createElement(tag)
createElement(d, tag) ==
    IF tag = InvalidTag THEN throw(d, "Error")
    ELSE [d EXCEPT !.nodes = Append(@, DomNode(tag, "element")),
                   !.ret = Len(d.nodes) + 1]

\* x leaves the parent or the fragment that holds it
removeFromParent(d, x) ==
    [d EXCEPT !.nodes = [i \in 1..Len(d.nodes) |->
                            [d.nodes[i] EXCEPT !.children =
                                SelectSeq(@, LAMBDA c : c # x)]],
              !.fragment = SelectSeq(@, LAMBDA c : c # x)]

\* fragment.appendChild(x): a node has one parent at a time
fragmentAppend(d, x) ==
    [removeFromParent(d, x) EXCEPT !.fragment = Append(@, x)]

\* parent.appendChild(fragment)
appendFragment(d, parent) ==
    [d EXCEPT !.nodes[parent].children = @ \o d.fragment,
              !.fragment = << >>]

\* parent.textContent = ''
clearChildren(d, parent) == [d EXCEPT !.nodes[parent].children = << >>]

\* _generateKey, lines 1632-1644: the tag and a hash of the props
_generateKey(vnode) ==
    IF vnode.key # NoKey THEN vnode.key
    ELSE IF vnode.fn THEN vnode.tag \o "|hash:[function]"
    ELSE vnode.tag \o "|hash:" \o ToString(vnode.kids)

\* _canReuseElement, lines 1677-1679; an element made for a component has
\* the tag of the component's root, never the component's name
_canReuseElement(d, el, tag) == d.nodes[el].tag = tag

\* _wouldCreateCircularReference, lines 1206-1233: the items of the model
\* have no children, so the only way is parent === child
_wouldCreateCircularReference(parent, child) == parent = child

\* DOMRenderer.cleanup, lines 1606-1630, on an element and its subtree
RECURSIVE cleanup(_, _), cleanupEach(_, _)
cleanup(d, el) ==
    cleanupEach(IF d.nodes[el].key # NoKey
                THEN [d EXCEPT !.elementCache =
                                   mapDelete(@, d.nodes[el].key)]
                ELSE d,
                d.nodes[el].children)
cleanupEach(d, els) ==
    IF els = << >> THEN d ELSE cleanupEach(cleanup(d, Head(els)), Tail(els))

\* _recycleElement, lines 1235-1256
poolPush(d, el) ==
    [d EXCEPT !.recyclePool[d.nodes[el].tag] = Append(@, el),
              !.nodes[el].children = << >>,
              !.textContent = IF el \in DOMAIN @ THEN Put(@, el, << >>) ELSE @]
_recycleElement(d, el) ==
    IF Len(d.recyclePool[d.nodes[el].tag]) < recyclePoolSize
    THEN poolPush(cleanup(removeFromParent(d, el), el), el)
    ELSE removeFromParent(d, el)

\* _getRecycledElement, lines 1657-1665, or document.createElement
poolPop(d, tag, pool) ==
    [d EXCEPT !.recyclePool[tag] = SubSeq(pool, 1, Len(pool) - 1),
              !.ret = pool[Len(pool)]]
elementFor(d, tag) ==
    IF tag \in NodeTags /\ Len(d.recyclePool[tag]) > 0
    THEN poolPop(d, tag, d.recyclePool[tag])
    ELSE createElement(d, tag)

\* _createErrorElement, lines 777-782: the div is created before
\* error.message is read, and reading it off null is a TypeError
errorElement(d, error) ==
    IF error = "null" THEN throw(d, "Error")
    ELSE [d EXCEPT !.nodes[d.ret].kind = "error"]
_createErrorElement(d, error) == errorElement(createElement(d, "div"), error)

\* line 869-870
countFailure(d) ==
    [d EXCEPT !.failureCount = @ + 1,
              !.renderMode = IF d.failureCount + 1 >= maxFailures
                             THEN "fine-grained" ELSE @]

\* line 1441-1442
registerKey(d, el, key) ==
    [d EXCEPT !.elementCache = mapSet(@, key, el), !.nodes[el].key = key]

RECURSIVE render(_, _), renderEach(_, _), reconcileEach(_, _, _)

\* fragment.appendChild(childElement) if the child rendered to something
appendRendered(d) ==
    IF d.thrown # "" \/ d.ret = 0 THEN d ELSE fragmentAppend(d, d.ret)

\* children.forEach(child => ...), lines 1317-1320
renderEach(d, kids) ==
    IF kids = << >> \/ d.thrown # "" THEN d
    ELSE renderEach(appendRendered(render(d, Head(kids))), Tail(kids))

appendIfAny(d, el) ==
    IF d.thrown # "" THEN d ELSE appendFragment(d, el)

\* _updateChildren, lines 1309-1327
_updateChildren(d, el, kids) ==
    appendIfAny(
        renderEach(
            [clearChildren(cleanupEach(d, d.nodes[el].children), el)
                EXCEPT !.fragment = << >>],
            kids),
        el)

\* the key an old child is filed under, line 1138
oldKey(d, child, index) ==
    IF d.nodes[child].key # NoKey THEN d.nodes[child].key
    ELSE "auto-" \o ToString(index)

\* oldChildren.forEach((child, index) => oldChildrenByKey.set(key, child))
RECURSIVE oldChildrenByKey(_, _, _, _)
oldChildrenByKey(d, m, oldChildren, index) ==
    IF index >= Len(oldChildren) THEN m
    ELSE oldChildrenByKey(d,
             mapSet(m, oldKey(d, oldChildren[index + 1], index),
                    oldChildren[index + 1]),
             oldChildren, index + 1)

\* lines 1159-1167
reuseExisting(d, existing, key) ==
    [fragmentAppend(d, existing)
        EXCEPT !.out = Append(@, existing),
               !.used = @ \cup {existing},
               !.oldByKey = mapDelete(@, key)]

\* lines 1170-1174
keepNew(d, parent, key) ==
    IF d.thrown # "" THEN d
    ELSE IF d.ret = 0 \/ _wouldCreateCircularReference(parent, d.ret) THEN d
    ELSE [fragmentAppend(d, d.ret)
            EXCEPT !.out = Append(@, d.ret), !.nodes[d.ret].key = key]

\* the body of newChildren.forEach, lines 1144-1176
reconcileOne(d, parent, newChild, key, existing) ==
    IF /\ existing # 0
       /\ existing \notin d.used
       /\ _canReuseElement(d, existing, newChild.tag)
       /\ ~_wouldCreateCircularReference(parent, existing)
    THEN reuseExisting(d, existing, key)
    ELSE keepNew(render(d, newChild), parent, key)

reconcileEach(d, parent, newChildren) ==
    IF newChildren = << >> \/ d.thrown # "" THEN d
    ELSE reconcileEach(
             reconcileOne(d, parent, Head(newChildren),
                          _generateKey(Head(newChildren)),
                          mapGet(d.oldByKey,
                                 _generateKey(Head(newChildren)))),
             parent, Tail(newChildren))

\* oldChildrenByKey.forEach(unusedChild => ...), lines 1178-1182
RECURSIVE recycleUnused(_, _)
recycleUnused(d, unused) ==
    IF unused = << >> THEN d
    ELSE recycleUnused(IF Head(unused).el \in d.used THEN d
                       ELSE _recycleElement(d, Head(unused).el),
                       Tail(unused))

\* lines 1178-1203; appending a fragment of detached elements does not
\* throw, so the catch of lines 1189-1201 is never entered
finishReconcile(d, parent) ==
    IF d.thrown # "" THEN d
    ELSE appendFragment(clearChildren(recycleUnused(d, d.oldByKey), parent),
                        parent)

\* _reconcileChildren, lines 1128-1204; the list it returns is left in out
_reconcileChildren(d, parent, oldChildren, newChildren) ==
    finishReconcile(
        reconcileEach(
            [d EXCEPT !.out = << >>, !.fragment = << >>, !.used = {},
                      !.oldByKey =
                          oldChildrenByKey(d, << >>, oldChildren, 0)],
            parent, newChildren),
        parent)

\* the catch of lines 1117-1120
staticFallback(d, el, kids) ==
    IF d.thrown = "" THEN d ELSE _updateChildren(caught(d), el, kids)

\* the closure of a children function: the element, the variables
\* childElements, lastChildrenState (set tells that it is not null any
\* more) and useOptimizedPath of lines 1024-1026, or lastChildrenResult
\* and isInitialized of line 1279
closure(el, kind) ==
    [element |-> el, kind |-> kind, childElements |-> << >>,
     last |-> << >>, set |-> FALSE, useOptimizedPath |-> TRUE]

\* lastChildrenState = newChildren, lines 1061, 1066 and 1070
remember(d, c, kids) ==
    [d EXCEPT !.closures[c].last = kids, !.closures[c].set = TRUE]

\* the outer catch of updateChildren, lines 1074-1082
giveUp(d, c) ==
    caught(_updateChildren(
               [caught(d) EXCEPT !.closures[c].useOptimizedPath = FALSE],
               d.closures[c].element, << >>))

\* lines 1065-1066 and 1069-1070
afterUpdate(d, c, kids) ==
    IF d.thrown = "" THEN remember(d, c, kids) ELSE giveUp(d, c)

\* lines 1060-1067
afterReconcile(d, c, kids) ==
    IF d.thrown = ""
    THEN remember([d EXCEPT !.closures[c].childElements = d.out], c, kids)
    ELSE afterUpdate(
             _updateChildren(
                 [caught(d) EXCEPT !.closures[c].useOptimizedPath = FALSE],
                 d.closures[c].element, kids),
             c, kids)

\* updateChildren of _handleChildrenOptimized, lines 1028-1083, when the
\* children function returns the list kids
updateOptimized(d, c, kids) ==
    IF d.closures[c].set /\ d.closures[c].last = kids THEN d
    ELSE IF d.closures[c].useOptimizedPath
    THEN afterReconcile(
             _reconcileChildren(d, d.closures[c].element,
                                d.closures[c].childElements, kids),
             c, kids)
    ELSE afterUpdate(_updateChildren(d, d.closures[c].element, kids),
                     c, kids)

\* updateChildren of _handleReactiveChildren, lines 1281-1304
afterFine(d, c, kids) ==
    IF d.thrown = "" THEN remember(d, c, kids) ELSE caught(d)
updateFine(d, c, kids) ==
    IF d.closures[c].set /\ d.closures[c].last = kids THEN d
    ELSE afterFine(_updateChildren(d, d.closures[c].element, kids), c, kids)

\* the initial reconciliation, lines 1087-1110
initialCatch(d, c, kids) ==
    IF d.thrown = ""
    THEN remember([d EXCEPT !.closures[c].childElements = d.out], c, kids)
    ELSE remember(
             _updateChildren(
                 [caught(d) EXCEPT !.closures[c].useOptimizedPath = FALSE],
                 d.closures[c].element, kids),
             c, kids)
initialReconcile(d, c, kids) ==
    initialCatch(_reconcileChildren(d, d.closures[c].element, << >>, kids),
                 c, kids)

\* _handleChildrenOptimized for a children function, lines 1023-1111:
\* _createReactiveUpdate runs updateChildren once, then the children are
\* reconciled again from an empty list
mountOptimized(d, el, kids) ==
    initialReconcile(
        updateOptimized(
            [d EXCEPT !.closures = Append(@, closure(el, "optimized"))],
            Len(d.closures) + 1, kids),
        Len(d.closures) + 1, kids)

\* _handleReactiveChildren, lines 1278-1307
mountFine(d, el, kids) ==
    updateFine([d EXCEPT !.closures = Append(@, closure(el, "fine-grained"))],
               Len(d.closures) + 1, kids)

\* _handleChildren, lines 1008-1020, 1023 and 1114-1121, for a children
\* list and for a function that returns the list
_handleChildren(d, el, kids, fn) ==
    IF d.renderMode = "fine-grained"
    THEN (IF fn THEN mountFine(d, el, kids)
          ELSE _updateChildren(d, el, kids))
    ELSE (IF fn THEN mountOptimized(d, el, kids)
          ELSE staticFallback(_reconcileChildren(d, el, << >>, kids),
                              el, kids))

\* _handleText for a text that is a value, line 1332
_handleText(d, el, text) ==
    [d EXCEPT !.textContent = Put(@, el, toText(text))]

\* _setupSyncElement and _processProperties: the text prop or the children
\* prop
setupElement(d, vnode) ==
    IF d.thrown # "" THEN d
    ELSE IF "text" \in DOMAIN vnode THEN _handleText(d, d.ret, vnode.text)
    ELSE IF ~vnode.has THEN d
    ELSE returning(_handleChildren(d, d.ret, vnode.kids, vnode.fn), d.ret)

\* _createElementFineGrained, lines 875-889
_createElementFineGrained(d, vnode) ==
    setupElement(createElement(d, vnode.tag), vnode)

keyed(d, key) ==
    IF d.thrown # "" THEN d ELSE registerKey(d, d.ret, key)

\* _createElementOptimized, lines 1436-1452
_createElementOptimized(d, vnode, key) ==
    setupElement(keyed(elementFor(d, vnode.tag), key), vnode)

\* the try block of render, lines 861-867
renderOptimized(d, vnode, cached) ==
    IF cached # 0 /\ _canReuseElement(d, cached, vnode.tag)
    THEN [d EXCEPT !.ret = cached]
    ELSE _createElementOptimized(d, vnode, _generateKey(vnode))

\* the catch block of render, lines 868-872
renderCatch(d, vnode) ==
    IF d.thrown = "" THEN d
    ELSE _createElementFineGrained(countFailure(caught(d)), vnode)

\* _createPlaceholder, lines 769-775
_createPlaceholder(d) ==
    [d EXCEPT !.nodes = Append(@, DomNode("div", "placeholder")),
              !.ret = Len(d.nodes) + 1]

\* what a job does once its promise has settled is told by its kind; the
\* placeholder is the one the handlers close over
waitBehind(d, kind, name) ==
    [d EXCEPT !.jobs = Append(@, [kind |-> kind, name |-> name,
                                  placeholder |-> d.ret,
                                  state |-> "pending"])]

\* _handleAsyncComponent, lines 560-577, and _handleAsyncRender, lines
\* 612-626, up to their return; promisify hands a thenable back as it is
_handleAsync(d, kind, name) == waitBehind(_createPlaceholder(d), kind, name)

\* _resolveAsyncProps up to its first await, lines 525-534: with a cache
\* entry less than 5 s old the props of that entry are returned at once
resolveFrom(d, name, fresh) ==
    IF d.asyncPropsCache # NoCache /\ fresh
    THEN [d EXCEPT !.jobs = Append(@, [kind |-> "cached", name |-> name,
                                       placeholder |-> d.ret,
                                       state |-> "settled"])]
    ELSE waitBehind(d, "props", name)

\* _createWithAsyncProps, lines 506-523, up to its return
_createWithAsyncProps(d, name, fresh) ==
    resolveFrom(_createPlaceholder(d), name, fresh)

\* componentFn(props, context) and _processComponentResult, lines 467-470
\* and 579-605
componentFn(d, name) ==
    IF name = "Ok" THEN render(d, Leaf("span", NoKey))
    ELSE IF name = "AsyncFn" THEN _handleAsync(d, "component", name)
    ELSE IF name = "AsyncRender" THEN _handleAsync(d, "render", name)
    ELSE IF name = "ThrowsNull" THEN throw(d, "null")
    ELSE throw(d, "Error")

\* the catch of lines 471-474
createCatch(d) ==
    IF d.thrown = "" THEN d ELSE _createErrorElement(caught(d), d.thrown)

\* ComponentManager.create, lines 455-475, for a registered name; fresh
\* tells whether Date.now() is within 5 s of the cache entry's timestamp
create(d, vnode, fresh) ==
    IF vnode.async THEN _createWithAsyncProps(d, vnode.tag, fresh)
    ELSE createCatch(componentFn(d, vnode.tag))

\* DOMRenderer.render, lines 833-873, for a single-key object
render(d, vnode) ==
    IF vnode.tag \in Components THEN create(d, vnode, d.fresh)
    ELSE IF d.renderMode = "fine-grained"
    THEN _createElementFineGrained(d, vnode)
    ELSE renderCatch(
             renderOptimized(d, vnode,
                             mapGet(d.elementCache, _generateKey(vnode))),
             vnode)

\* a setRenderMode that stores whatever it is given
setRenderMode_Unchecked(d, mode) == [d EXCEPT !.renderMode = mode]

\* setRenderMode, lines 822-827
setRenderMode(d, mode) ==
    IF mode \in {"fine-grained", "batch"}
    THEN [d EXCEPT !.renderMode = mode] ELSE d

MaxNodes == 4
MaxFailureCount == 4
MaxItems == 2
Modes == {"fine-grained", "batch", "string"}
Keys == {"k1", "k2"}
\* the items of a children list
Items ==
    {Leaf("li", k) : k \in Keys \cup {NoKey}}
        \cup {Leaf("p", "k1")}
        \cup {Leaf(c, NoKey) : c \in SyncComponents}
        \cup {Leaf(InvalidTag, NoKey)}
ChildLists == UNION { [1..n -> Items] : n \in 0..MaxItems }
\* {ul: {children: [...]}}
Ul(kids) == WithChildren("ul", NoKey, kids, FALSE)

SetRenderMode ==
    \E mode \in Modes : BecomesRenderer(setRenderMode(Renderer, mode))

\* domRenderer.render(vnode) from the outside (juris.objectToHtml)
Render ==
    \E kids \in ChildLists :
        /\ Len(nodes) < MaxNodes
        /\ failureCount < MaxFailureCount
        /\ BecomesRenderer(render(Renderer, Ul(kids)))

NextRender ==
    \/ SetRenderMode
    \/ Render

SpecRender == Init /\ [][NextRender]_vars

\* parent.replaceChild(new, old): new leaves the place it had and takes
\* the place of old
substitute(children, old, new) ==
    [k \in 1..Len(children) |->
        IF children[k] = old THEN new ELSE children[k]]
putInPlace(d, new, old) ==
    [d EXCEPT !.nodes = [i \in 1..Len(d.nodes) |->
                            [d.nodes[i] EXCEPT !.children =
                                substitute(@, old, new)]]]
replaceChild(d, new, old) == putInPlace(removeFromParent(d, new), new, old)

\* _replaceWithError, lines 784-788; replaceChild does nothing for a
\* placeholder that has no parent, which is the test of line 786
replaceWithErrorElement(d, placeholder) ==
    IF d.thrown # "" THEN d ELSE replaceChild(d, d.ret, placeholder)
_replaceWithError(d, placeholder, error) ==
    replaceWithErrorElement(_createErrorElement(d, error), placeholder)

\* the try and catch inside a then handler, lines 565-573 and 616-622
tryReplace(d, placeholder) ==
    IF d.thrown # ""
    THEN _replaceWithError(caught(d), placeholder, d.thrown)
    ELSE IF d.ret # 0 THEN replaceChild(d, d.ret, placeholder)
    ELSE d

\* .catch(error => this._replaceWithError(placeholder, error)), lines 520,
\* 574 and 623; an exception of this handler is an unhandled rejection,
\* which changes nothing
catchHandler(d, placeholder) ==
    caught(IF d.thrown = "" THEN d
           ELSE _replaceWithError(caught(d), placeholder, d.thrown))

\* the promise of an async component function or of an async render()
\* settles: the handlers of lines 564-574 and 615-623, the value of a
\* fulfilled promise being {span: {}}
settleResult(d, job, outcome, reason) ==
    catchHandler(IF outcome = "fulfilled"
                 THEN tryReplace(render(d, Leaf("span", NoKey)),
                                 job.placeholder)
                 ELSE throw(d, reason),
                 job.placeholder)

\* the then handler of line 510-519: _createSyncComponent, lines 551-558
thenSync(d, job) == tryReplace(componentFn(d, job.name), job.placeholder)

\* the promise of a prop settles: the rest of _resolveAsyncProps, lines
\* 534-544, where reading error.message off null is a TypeError that
\* rejects the function's promise, then the handlers of lines 510-520
settleProps(d, job, outcome, reason) ==
    catchHandler(IF outcome = "rejected" /\ reason = "null"
                 THEN throw(d, "Error")
                 ELSE thenSync([d EXCEPT !.asyncPropsCache =
                                    IF outcome = "fulfilled"
                                    THEN [k |-> "value"]
                                    ELSE [k |-> "__asyncError"]],
                               job),
                 job.placeholder)

\* the promise of job j settles and its handlers run
settle(d, j, outcome, reason) ==
    IF d.jobs[j].kind = "props"
    THEN settleProps([d EXCEPT !.jobs[j].state = outcome], d.jobs[j],
                     outcome, reason)
    ELSE settleResult([d EXCEPT !.jobs[j].state = outcome], d.jobs[j],
                      outcome, reason)

\* the handlers of line 510-520 for props that came from the cache
runCached(d, j) ==
    catchHandler(thenSync([d EXCEPT !.jobs[j].state = "done"], d.jobs[j]),
                 d.jobs[j].placeholder)

MaxJobs == 2
\* what a promise is rejected with: an Error, or null or undefined
Reasons == {"Error", "null"}
AsyncItems ==
    {Leaf(c, NoKey) : c \in AsyncComponents} \cup {WithAsyncProp("Ok")}
AsyncLists == UNION { [1..n -> AsyncItems] : n \in 1..MaxJobs }

\* container.appendChild(domRenderer.render({div: {children: [...]}}))
\* with async components in the list
MountAsync ==
    \E kids \in AsyncLists, fresh \in BOOLEAN :
        /\ Len(jobs) + Len(kids) <= MaxJobs
        /\ BecomesRenderer(render([Renderer EXCEPT !.fresh = fresh],
                                  WithChildren("div", NoKey, kids, FALSE)))

SettleJob ==
    \E j \in 1..Len(jobs), outcome \in {"fulfilled", "rejected"},
       reason \in Reasons :
        /\ jobs[j].state = "pending"
        /\ BecomesRenderer(settle(Renderer, j, outcome, reason))

RunCached ==
    \E j \in 1..Len(jobs) :
        /\ jobs[j].state = "settled"
        /\ BecomesRenderer(runCached(Renderer, j))

NextComp ==
    \/ MountAsync
    \/ SettleJob
    \/ RunCached
    \/ SetRenderMode

SpecComp == Init /\ [][NextComp]_vars

MaxClosures == 1
\* the lists a children function returns: keyed elements and components,
\* no key twice
KeyedItems == {Leaf(t, k) : t \in {"li", "Ok"}, k \in Keys}
KeyedLists ==
    {kids \in UNION { [1..n -> KeyedItems] : n \in 0..MaxItems } :
        \A i, j \in 1..Len(kids) : i # j => kids[i].key # kids[j].key}

\* domRenderer.render({ul: {children: () => kids}})
MountReactive ==
    \E kids \in KeyedLists :
        /\ Len(closures) < MaxClosures
        /\ Len(nodes) < MaxNodes
        /\ BecomesRenderer(
               render(Renderer, WithChildren("ul", NoKey, kids, TRUE)))

\* a path the children function of closure c read has changed, it returns
\* kids now: the subscription calls updateChildren
UpdateChildren ==
    \E c \in 1..Len(closures), kids \in KeyedLists :
        /\ Len(nodes) < MaxNodes
        /\ BecomesRenderer(
               IF closures[c].kind = "optimized"
               THEN updateOptimized(Renderer, c, kids)
               ELSE updateFine(Renderer, c, kids))

\* new Juris({renderMode: 'batch'})
InitBatchMode == InitJuris(<< >>, "batch")

NextReconcile ==
    \/ MountReactive
    \/ UpdateChildren

SpecReconcile == InitBatchMode /\ [][NextReconcile]_vars

\* ------------------------------------------------------------------------
\* Component instances: lifecycle hooks, local state and cleanup
\* (ComponentManager.create, _createLifecycleComponent, cleanup)
\* ------------------------------------------------------------------------
\* WeakMap.delete(key)
Without(f, key) == [x \in (DOMAIN f) \ {key} |-> f[x]]

\* what a registered component function does: the keys it hands to
\* context.newState (each with the initial value 1), whether it returns an
\* object with hooks and render() or a plain vnode, how its onMount,
\* onUnmount and onUpdate hooks end ("none": no such hook), and the vnode it
\* renders, an element or another component
Registered(name) ==
    IF name = <<"L">>
    THEN [keys |-> << <<"n">> >>, lifecycle |-> TRUE, onMount |-> "none",
          onUnmount |-> "returns", onUpdate |-> "returns",
          component |-> FALSE, tag |-> "span", inner |-> << >>]
    ELSE IF name = <<"T">>
    THEN [keys |-> << <<"n">> >>, lifecycle |-> TRUE, onMount |-> "none",
          onUnmount |-> "throws", onUpdate |-> "throws",
          component |-> FALSE, tag |-> "p", inner |-> << >>]
    ELSE IF name = <<"W">>
    THEN [keys |-> << <<"n">> >>, lifecycle |-> TRUE, onMount |-> "none",
          onUnmount |-> "returns", onUpdate |-> "none",
          component |-> TRUE, tag |-> "", inner |-> <<"L">>]
    ELSE IF name = <<"M">>
    THEN [keys |-> << <<"n">> >>, lifecycle |-> TRUE, onMount |-> "returns",
          onUnmount |-> "returns", onUpdate |-> "none",
          component |-> FALSE, tag |-> "div", inner |-> << >>]
    ELSE [keys |-> << <<"n">> >>, lifecycle |-> FALSE, onMount |-> "none",
          onUnmount |-> "none", onUpdate |-> "none",
          component |-> FALSE, tag |-> "span", inner |-> << >>]

\* the ComponentManager with the StateManager and the renderer it works on,
\* between two top-level calls; hookCalls lists the hooks and render
\* functions the call has invoked, ret is what it returns
Manager ==
    [sm |-> Self, d |-> Renderer, componentCounters |-> componentCounters,
     localStates |-> localStates, instances |-> instances,
     componentStates |-> componentStates, created |-> created,
     updates |-> updates, mountTimers |-> mountTimers, hookCalls |-> << >>,
     ret |-> 0]

BecomesManager(cm) ==
    /\ BecomesStateManager(cm.sm)
    /\ BecomesDom(cm.d)
    /\ componentCounters' = cm.componentCounters
    /\ localStates' = cm.localStates
    /\ instances' = cm.instances
    /\ componentStates' = cm.componentStates
    /\ created' = cm.created
    /\ updates' = cm.updates
    /\ mountTimers' = cm.mountTimers
    /\ UNCHANGED asyncVars

\* a hook or the render function of the instance id is called
called(cm, hook, id, args) ==
    [cm EXCEPT !.hookCalls = Append(@, [hook |-> hook, id |-> id,
                                        args |-> args])]

\* the state paths of the Set componentStates of _setupComponent after the
\* component function has called newState for each key, line 493
RECURSIVE pathsOf(_, _)
pathsOf(componentId, keys) ==
    IF keys = << >> THEN << >>
    ELSE <<statePathOf(componentId, Head(keys))>>
         \o pathsOf(componentId, Tail(keys))

\* componentFn(props, context), line 467: the calls of context.newState
RECURSIVE callNewState(_, _)
callNewState(cm, paths) ==
    IF paths = << >> THEN cm
    ELSE callNewState(
             [cm EXCEPT !.sm = newState(@, Head(paths), Num(1)),
                        !.localStates =
                            Append(@, [statePath |-> Head(paths),
                                       initialValue |-> Num(1)])],
             Tail(paths))

\* this.juris.domRenderer.render(renderResult) for an element vnode
renderedAs(cm, d) == [cm EXCEPT !.d = d, !.ret = d.ret]

\* lines 640-655 and 590, 597, 603: the element is entered in instances and
\* componentStates, and the onMount hook of a lifecycle component is left to
\* a timer
registerInstance(cm, name, props, componentId) ==
    IF cm.ret = 0 THEN cm
    ELSE [cm EXCEPT
            !.instances =
                IF Registered(name).lifecycle
                THEN Put(@, cm.ret,
                         [id |-> componentId, name |-> name, props |-> props,
                          onUnmount |-> Registered(name).onUnmount,
                          onUpdate |-> Registered(name).onUpdate])
                ELSE @,
            !.componentStates =
                IF Registered(name).keys # << >>
                THEN Put(@, cm.ret, pathsOf(componentId, Registered(name).keys))
                ELSE @,
            !.created =
                Append(@, [id |-> componentId, element |-> cm.ret,
                           paths |-> pathsOf(componentId, Registered(name).keys),
                           onUnmount |-> Registered(name).onUnmount]),
            !.mountTimers =
                IF Registered(name).lifecycle
                   /\ Registered(name).onMount # "none"
                THEN Append(@, [id |-> componentId, name |-> name])
                ELSE @]

\* ComponentManager.create, lines 455-475, with _createLifecycleComponent,
\* lines 628-658, and _processComponentResult, lines 579-605, for a
\* registered component without async props
RECURSIVE createInstance(_, _, _)
RECURSIVE renderInstance(_, _, _)
createWith(cm, name, props, setup) ==
    registerInstance(
        renderInstance(
            callNewState([cm EXCEPT !.componentCounters = setup.counters],
                         pathsOf(setup.componentId, Registered(name).keys)),
            name, setup.componentId),
        name, props, setup.componentId)
createInstance(cm, name, props) ==
    createWith(cm, name, props, _setupComponent(cm.componentCounters, name))

\* domRenderer.render(renderResult) for the vnode the component name renders
renderResult(cm, name) ==
    IF Registered(name).component
    THEN createInstance(cm, Registered(name).inner, ObjB1)
    ELSE renderedAs(cm, render(cm.d, Leaf(Registered(name).tag, NoKey)))

\* instance.render() and domRenderer.render(renderResult), lines 636-639
renderInstance(cm, name, componentId) ==
    renderResult(called(cm, "render", componentId, << >>), name)

\* truthiness of current[pathParts[i]], line 757
truthy(v) == v.k = "object" \/ (v.k = "number" /\ v.n # 0)

\* lines 754-760 on the fields of the state tree: walk the segments but the
\* last through the truthy values and delete the last key; a truthy value
\* that is no object has no properties, so the walk ends at the next
\* segment and a delete on it removes nothing
RECURSIVE deletePath(_, _)
deletePath(f, parts) ==
    IF Len(parts) = 1 THEN Without(f, parts[1])
    ELSE IF parts[1] \in DOMAIN f /\ truthy(f[parts[1]])
              /\ f[parts[1]].k = "object"
    THEN Put(f, parts[1], Obj(deletePath(f[parts[1]].f, Tail(parts))))
    ELSE f

\* states.forEach(statePath => ...), lines 753-761
RECURSIVE deleteEach(_, _)
deleteEach(cm, paths) ==
    IF paths = << >> THEN cm
    ELSE deleteEach(
             [cm EXCEPT !.sm.state = deletePath(@, split(Head(paths), << >>))],
             Tail(paths))

\* lines 739-749: the onUnmount hook, an error it throws is logged
callOnUnmount(cm, element) ==
    IF element \in DOMAIN cm.instances
       /\ cm.instances[element].onUnmount # "none"
    THEN called(cm, "onUnmount", cm.instances[element].id, << >>)
    ELSE cm

\* lines 751-763
deleteStates(cm, element) ==
    IF element \in DOMAIN cm.componentStates
    THEN [deleteEach(cm, cm.componentStates[element])
            EXCEPT !.componentStates = Without(@, element)]
    ELSE cm

\* ComponentManager.cleanup, lines 738-767
cleanupInstance(cm, element) ==
    [deleteStates(callOnUnmount(cm, element), element)
        EXCEPT !.instances = Without(@, element)]

\* the instances rendered to element are cleaned up
forget(cm, element) ==
    [cm EXCEPT !.created = SelectSeq(@, LAMBDA c : c.element # element)]

\* the elements of els and the elements below them, a parent before its
\* children
RECURSIVE below(_, _)
below(d, els) ==
    IF els = << >> THEN << >>
    ELSE <<Head(els)>> \o below(d, d.nodes[Head(els)].children)
         \o below(d, Tail(els))

\* this.juris.componentManager.cleanup(element) of DOMRenderer.cleanup,
\* line 1607, for the elements els
RECURSIVE cleanupInstances(_, _)
cleanupInstances(cm, els) ==
    IF els = << >> THEN cm
    ELSE cleanupInstances(forget(cleanupInstance(cm, Head(els)), Head(els)),
                          Tail(els))

\* _updateChildren, lines 1312-1315: the children are cleaned up and removed
cleared(cm, element) ==
    [cm EXCEPT !.d = [clearChildren(
                          cleanupEach(cm.d, cm.d.nodes[element].children),
                          element)
                        EXCEPT !.fragment = << >>]]

\* _updateChildren, lines 1319 and 1326
appended(cm, element) ==
    IF cm.ret = 0 THEN cm
    ELSE [cm EXCEPT !.d = appendFragment(fragmentAppend(@, cm.ret), element)]

\* updateElementContent, lines 1602-1604, with the vnode the component name
\* renders
updateElementContent(cm, element, name) ==
    appended(
        renderResult(
            cleared(cleanupInstances(
                        cm, below(cm.d, cm.d.nodes[element].children)),
                    element),
            name),
        element)

MaxCreated == 2

Mount ==
    \E name \in LifecycleComponents :
        /\ Len(created) < MaxCreated
        /\ Len(localStates) <= MaxLocalStates
        /\ Len(nodes) < MaxNodes
        /\ componentCounters[name] < MaxInstances
        /\ BecomesManager(createInstance(Manager, name, ObjB1))

Cleanup ==
    \E element \in 1..Len(nodes) :
        BecomesManager(forget(cleanupInstance(Manager, element), element))

\* the callback of setTimeout(..., 0), lines 645-654: the timer that was
\* scheduled first runs and calls instance.hooks.onMount()
onMountTimer(cm) ==
    IF cm.mountTimers = << >> THEN cm
    ELSE [called(cm, "onMount", Head(cm.mountTimers).id, << >>)
            EXCEPT !.mountTimers = Tail(@)]

\* a component with an onMount hook is created
MountHooked ==
    \E name \in MountedComponents :
        /\ Len(created) < MaxCreated
        /\ Len(localStates) <= MaxLocalStates
        /\ Len(nodes) < MaxNodes
        /\ componentCounters[name] < MaxInstances
        /\ BecomesManager(createInstance(Manager, name, ObjB1))

OnMountFires ==
    /\ mountTimers # << >>
    /\ BecomesManager(onMountTimer(Manager))

NextLifecycle ==
    \/ Mount
    \/ SetLocalTo({Null, Num(2)})
    \/ Cleanup

SpecLifecycle == Init /\ [][NextLifecycle]_vars

NextMount ==
    \/ MountHooked
    \/ Mount
    \/ OnMountFires
    \/ Cleanup

SpecMount == Init /\ [][NextMount]_vars

\* --- updateInstance: new props for a mounted instance ---
\* a promise, an object without own keys that has a then method, with the
\* way it settles: fulfilled with a value or rejected with a reason
Thenable(outcome, value) ==
    [k |-> "object", f |-> EmptyObj,
     then |-> [outcome |-> outcome, value |-> value]]

\* value?.then
isThenable(v) == "then" \in DOMAIN v

messageKey == <<"m", "e", "s", "s", "a", "g", "e">>
asyncErrorKey ==
    <<"_", "_", "a", "s", "y", "n", "c", "E", "r", "r", "o", "r">>

\* _hasAsyncProps, lines 502-504
_hasAsyncProps(props) ==
    /\ props.k = "object"
    /\ \E key \in DOMAIN props.f : isThenable(props.f[key])

\* _generateCacheKey, lines 547-549: the JSON text of the props with every
\* promise replaced by '[Promise]'
_generateCacheKey(props) ==
    [key \in DOMAIN props.f |->
        IF isThenable(props.f[key]) THEN [k |-> "string", s |-> "[Promise]"]
        ELSE props.f[key]]

\* lines 532-540: what one prop resolves to
resolvedValue(v) ==
    IF ~isThenable(v) THEN v
    ELSE IF v.then.outcome = "fulfilled" THEN v.then.value
    ELSE Obj([x \in {asyncErrorKey} |-> Prop(v.then.value, messageKey)])

\* line 536: error.message of a reason that is null or undefined is a
\* TypeError, which rejects the promise of _resolveAsyncProps
resolveThrows(props) ==
    \E key \in DOMAIN props.f :
        /\ isThenable(props.f[key])
        /\ props.f[key].then.outcome = "rejected"
        /\ props.f[key].then.value.k \in {"null", "undefined"}

\* lines 530-541
resolved(props) ==
    Obj([key \in DOMAIN props.f |-> resolvedValue(props.f[key])])

\* lines 526-528: the props of a cache entry for the same key that is less
\* than 5 s old
cachedProps(cm, newProps, fresh) ==
    IF cm.d.asyncPropsCache.k = "entry"
       /\ cm.d.asyncPropsCache.key = _generateCacheKey(newProps) /\ fresh
    THEN cm.d.asyncPropsCache.props
    ELSE NoCache

\* lines 700-703 up to the return: the then-callback waits for the props
awaitProps(cm, instance, element, newProps, fresh) ==
    [cm EXCEPT !.updates =
        Append(@, [kind |-> "props", instance |-> instance,
                   element |-> element, oldProps |-> instance.props,
                   newProps |-> newProps,
                   cached |-> cachedProps(cm, newProps, fresh)])]

\* lines 711-719: the onUpdate hook, an error it throws is logged
callOnUpdate(cm, instance, oldProps, newProps) ==
    IF instance.onUpdate # "none"
    THEN called(cm, "onUpdate", instance.id, <<oldProps, newProps>>)
    ELSE cm

\* lines 724-729: promisify wraps the vnode that render() returned in a new
\* promise, so the content is patched by the then-callback of that promise
patchLater(cm, element, name) ==
    [cm EXCEPT !.updates = Append(@, [kind |-> "content", element |-> element,
                                      name |-> name])]

\* _performUpdate without the catch of line 717: an onUpdate hook that
\* throws ends the update
_performUpdate_HookFatal(cm, instance, element, oldProps, newProps) ==
    IF instance.onUpdate = "throws"
    THEN callOnUpdate(cm, instance, oldProps, newProps)
    ELSE patchLater(called(callOnUpdate(cm, instance, oldProps, newProps),
                           "render", instance.id, << >>),
                    element, instance.name)

\* _performUpdate, lines 710-736, for a render function that returns a vnode
_performUpdate(cm, instance, element, oldProps, newProps) ==
    patchLater(called(callOnUpdate(cm, instance, oldProps, newProps),
                      "render", instance.id, << >>),
               element, instance.name)

\* instance.props = props, lines 701 and 705, on the instance object with
\* the componentId id, which instances holds under element unless the
\* element has been cleaned up or entered again since
setProps(cm, element, id, props) ==
    IF element \in DOMAIN cm.instances /\ cm.instances[element].id = id
    THEN [cm EXCEPT !.instances[element].props = props]
    ELSE cm

\* ComponentManager.updateInstance, lines 692-708; fresh tells whether a
\* cache entry is less than 5 s old
updateInstance(cm, element, newProps, fresh) ==
    IF element \notin DOMAIN cm.instances THEN cm
    ELSE IF deepEquals(cm.instances[element].props, newProps) THEN cm
    ELSE IF _hasAsyncProps(newProps)
    THEN awaitProps(cm, cm.instances[element], element, newProps, fresh)
    ELSE _performUpdate(
             setProps(cm, element, cm.instances[element].id, newProps),
             cm.instances[element], element,
             cm.instances[element].props, newProps)

\* the callback j leaves the list of those that have not run
taken(cm, j) ==
    [cm EXCEPT !.updates = SubSeq(@, 1, j - 1) \o SubSeq(@, j + 1, Len(@))]

\* line 543: asyncPropsCache.set(cacheKey, {props: resolved, timestamp})
cacheSet(cm, props, resolvedProps) ==
    [cm EXCEPT !.d.asyncPropsCache =
        [k |-> "entry", key |-> _generateCacheKey(props),
         props |-> resolvedProps]]

\* the then-callback of lines 700-703 with the resolved props
thenUpdate(cm, update, resolvedProps) ==
    _performUpdate(
        setProps(cm, update.element, update.instance.id, resolvedProps),
        update.instance, update.element, update.oldProps, resolvedProps)

\* the promises of the props of update j have settled: the rest of
\* _resolveAsyncProps, lines 530-544, and the handlers of lines 700-703
propsSettled(cm, update) ==
    IF update.cached # NoCache THEN thenUpdate(cm, update, update.cached)
    ELSE IF resolveThrows(update.newProps) THEN cm
    ELSE thenUpdate(cacheSet(cm, update.newProps, resolved(update.newProps)),
                    update, resolved(update.newProps))

\* the then-callback of lines 727-729
contentPatched(cm, update) ==
    updateElementContent(cm, update.element, update.name)

MaxUpdates == 2
PropsB2 == Obj([x \in {<<"b">>} |-> Num(2)])
\* {b: 1}, {b: 2}, {b: a promise fulfilled with 2} and {b: a promise
\* rejected with null}
UpdateProps ==
    {ObjB1, PropsB2,
     Obj([x \in {<<"b">>} |-> Thenable("fulfilled", Num(2))]),
     Obj([x \in {<<"b">>} |-> Thenable("rejected", Null)])}

UpdateInstance ==
    \E element \in 1..Len(nodes), newProps \in UpdateProps, fresh \in BOOLEAN :
        /\ Len(updates) < MaxUpdates
        /\ BecomesManager(updateInstance(Manager, element, newProps, fresh))

PropsSettle ==
    \E j \in 1..Len(updates) :
        /\ updates[j].kind = "props"
        /\ BecomesManager(propsSettled(taken(Manager, j), updates[j]))

\* the microtasks run in the order they were queued
ContentPatch ==
    \E j \in 1..Len(updates) :
        /\ updates[j].kind = "content"
        /\ \A i \in 1..(j - 1) : updates[i].kind # "content"
        /\ Len(created) < MaxCreated
        /\ Len(localStates) <= MaxLocalStates
        /\ Len(nodes) < MaxNodes
        /\ componentCounters[<<"L">>] < MaxInstances
        /\ BecomesManager(contentPatched(taken(Manager, j), updates[j]))

NextUpdate ==
    \/ Mount
    \/ UpdateInstance
    \/ PropsSettle
    \/ ContentPatch
    \/ Cleanup

SpecUpdate == Init /\ [][NextUpdate]_vars

\* --- create with promise-valued props ---
\* _createSyncComponent, lines 551-558, for a component function that
\* returns a vnode or an object with hooks and render(): componentFn is
\* called with props
_createSyncComponent(cm, name, props) ==
    createInstance(
        called(cm, "componentFn",
               _setupComponent(cm.componentCounters, name).componentId,
               <<props>>),
        name, props)

\* _createWithAsyncProps, lines 506-523, up to its return, with
\* _resolveAsyncProps up to its first await, lines 525-528: the
\* then-callback waits for the props, which are those of a cache entry for
\* the same key when there is one less than 5 s old
awaitCreate(cm, name, props, fresh) ==
    [renderedAs(cm, _createPlaceholder(cm.d))
        EXCEPT !.updates =
            Append(@, [kind |-> "create", name |-> name, props |-> props,
                       placeholder |-> Len(cm.d.nodes) + 1,
                       cached |-> cachedProps(cm, props, fresh)])]

\* ComponentManager.create, lines 455-475, for a registered component
createComponent(cm, name, props, fresh) ==
    IF _hasAsyncProps(props) THEN awaitCreate(cm, name, props, fresh)
    ELSE _createSyncComponent(cm, name, props)

\* the then-callback of lines 510-519 with the resolved props
thenCreate(cm, update, resolvedProps) ==
    [_createSyncComponent(cm, update.name, resolvedProps)
        EXCEPT !.d = tryReplace(@, update.placeholder)]

\* the promises of the props have settled: the rest of _resolveAsyncProps,
\* lines 530-544, and the handlers of lines 510-520
createSettled(cm, update) ==
    IF update.cached # NoCache THEN thenCreate(cm, update, update.cached)
    ELSE IF resolveThrows(update.props)
    THEN [cm EXCEPT !.d = _replaceWithError(@, update.placeholder, "Error")]
    ELSE thenCreate(cacheSet(cm, update.props, resolved(update.props)),
                    update, resolved(update.props))

\* the registered components that are created with props
CreatedComponents == {<<"L">>, <<"P">>}
\* {b: 1}, and {b: p} for a promise p fulfilled with 1 or with 2 or
\* rejected with null
CreateProps ==
    {ObjB1,
     Obj([x \in {<<"b">>} |-> Thenable("fulfilled", Num(1))]),
     Obj([x \in {<<"b">>} |-> Thenable("fulfilled", Num(2))]),
     Obj([x \in {<<"b">>} |-> Thenable("rejected", Null)])}

Create ==
    \E name \in CreatedComponents, props \in CreateProps, fresh \in BOOLEAN :
        /\ Len(updates) < MaxUpdates
        /\ Len(created) < MaxCreated
        /\ Len(localStates) <= MaxLocalStates
        /\ Len(nodes) < MaxNodes
        /\ componentCounters[name] < MaxInstances
        /\ BecomesManager(createComponent(Manager, name, props, fresh))

CreateSettles ==
    \E j \in 1..Len(updates) :
        /\ updates[j].kind = "create"
        /\ Len(created) < MaxCreated
        /\ Len(localStates) <= MaxLocalStates
        /\ componentCounters[updates[j].name] < MaxInstances
        /\ BecomesManager(createSettled(taken(Manager, j), updates[j]))

NextCreate ==
    \/ Create
    \/ CreateSettles
    \/ Cleanup

SpecCreate == Init /\ [][NextCreate]_vars

\* ------------------------------------------------------------------------
\* Reactive bindings of an element and their cleanup.  An element of this
\* part is {span: {text: textFn}}; it is named by its function.
\* ------------------------------------------------------------------------
\* the renderer with the StateManager its bindings subscribe to
Bound == [sm |-> Self, d |-> Renderer]

BecomesBound(b) ==
    /\ BecomesStateManager(b.sm)
    /\ BecomesDom(b.d)
    /\ UNCHANGED <<asyncVars, localVars>>

\* the function subscribeInternal(path, callback) returned, lines 259-265
unsubscribeInternal(sm, path, updateFn) ==
    LET i == indexOf(sm.subscribers, path)
        left == SelectSeq(sm.subscribers[i].cbs, LAMBDA cb : cb # updateFn)
    IN IF i = 0 THEN sm
       ELSE IF left = << >>
       THEN [sm EXCEPT !.subscribers = RemoveAt(@, i)]
       ELSE [sm EXCEPT !.subscribers[i].cbs = left]

\* lines 1596-1599 and 885-887: the subscriptions array of the element gets
\* the unsubscribe function of each dependency, and the element is entered
\* in the WeakMap if the array is not empty
withSubscriptions(b, element, dependencies, updateFn) ==
    IF dependencies = << >> THEN b
    ELSE [b EXCEPT !.d.subscriptions =
             Put(@, element,
                 [i \in 1..Len(dependencies) |->
                     [path |-> dependencies[i], callback |-> updateFn]])]

\* _createElementFineGrained('span', {text: textFn}), lines 875-889, through
\* _handleReactiveText and _createReactiveUpdate
createTextElement(b, updateFn) ==
    withSubscriptions(
        [b EXCEPT !.sm = _createReactiveUpdate(@, updateFn)],
        updateFn,
        _createReactiveUpdate(b.sm, updateFn).sets[Len(b.sm.sets) + 1],
        updateFn)

\* data.subscriptions.forEach(unsubscribe => unsubscribe()), lines 1611-1613
RECURSIVE unsubscribeEach(_, _)
unsubscribeEach(sm, unsubscribes) ==
    IF unsubscribes = << >> THEN sm
    ELSE unsubscribeEach(
             unsubscribeInternal(sm, Head(unsubscribes).path,
                                 Head(unsubscribes).callback),
             Tail(unsubscribes))

\* DOMRenderer.cleanup(element), lines 1606-1630, for an element without
\* component instance, event listeners, key and children
cleanupElement(b, element) ==
    IF element \notin DOMAIN b.d.subscriptions THEN b
    ELSE [b EXCEPT !.sm = unsubscribeEach(@, b.d.subscriptions[element]),
                   !.d.subscriptions = Without(@, element)]

\* the text functions of the elements
TextFns == {"rCond", "rAll", "rSet"}

MountText ==
    \E updateFn \in TextFns :
        /\ updateFn \notin boundFns
        /\ updateFn \notin DOMAIN subscriptions
        /\ BecomesBound(createTextElement(Bound, updateFn))

CleanupElement ==
    \E element \in DOMAIN subscriptions :
        BecomesBound(cleanupElement(Bound, element))

NextCleanup ==
    \/ MountText
    \/ SetState(ValidPaths, {Num(1), Num(2)})
    \/ CleanupElement

SpecCleanup == Init /\ [][NextCleanup]_vars

\* ------------------------------------------------------------------------
\* The recycle pool at its capacity: a children function whose list is
\* longer than the pool is deep
\* ------------------------------------------------------------------------
\* three keyed items and the lists a children function makes of them
LongKeys == {"k1", "k2", "k3"}
LongLists ==
    {kids \in UNION { [1..n -> {Leaf("li", k) : k \in LongKeys}] : n \in 0..3 } :
        \A i, j \in 1..Len(kids) : i # j => kids[i].key # kids[j].key}

\* recyclePoolSize + 1 keyed items: {li: {key: 'k1'}}, {li: {key: 'k2'}}, ...
ManyItems == [i \in 1..(recyclePoolSize + 1) |-> Leaf("li", "k" \o ToString(i))]

\* The renderer in batch mode after domRenderer.render({ul: {children: fn}})
\* where fn returned ManyItems, and after fn returned the first two of them
\* at its next run: the ul (node 1) holds the nodes of k1 and k2, the
\* other recyclePoolSize - 1 nodes have been cleaned up and pushed on the
\* pool of their tag in the order of the old list (lines 1178-1182 and
\* 1235-1256), and only the ul, k1 and k2 are left in elementCache
UlKey == _generateKey(WithChildren("ul", NoKey, ManyItems, TRUE))
nearlyFull ==
    /\ nodes = << [DomNode("ul", "element") EXCEPT !.children = <<2, 3>>,
                                                   !.key = UlKey] >>
                 \o [i \in 1..(recyclePoolSize + 1) |->
                        [DomNode("li", "element") EXCEPT !.key = ManyItems[i].key]]
    /\ elementCache = << [key |-> UlKey, el |-> 1],
                          [key |-> "k1", el |-> 2], [key |-> "k2", el |-> 3] >>
    /\ recyclePool = [t \in NodeTags |->
                         IF t = "li"
                         THEN [i \in 1..(recyclePoolSize - 1) |-> i + 3]
                         ELSE << >>]
    /\ renderMode = "batch"
    /\ failureCount = 0
    /\ closures = << [closure(1, "optimized")
                         EXCEPT !.childElements = <<2, 3>>,
                                !.last = SubSeq(ManyItems, 1, 2),
                                !.set = TRUE] >>
    /\ jobs = << >>
    /\ asyncPropsCache = NoCache
    /\ subscriptions = EmptyObj
    /\ textContent = EmptyObj
    /\ thens = << >>

InitNearlyFull ==
    /\ newStateManager(<< >>, << >>)
    /\ createPromisify
    /\ nearlyFull
    /\ newComponentManager

\* the children function of closure c returns kids now
UpdateLong ==
    \E c \in 1..Len(closures), kids \in LongLists :
        BecomesRenderer(updateOptimized(Renderer, c, kids))

NextPool == UpdateLong

SpecPool == InitNearlyFull /\ [][NextPool]_vars

\* ------------------------------------------------------------------------
\* Reactive bindings whose function returns a promise
\* (_handleReactiveText, _handleReactiveChildren in fine-grained mode)
\* ------------------------------------------------------------------------
\* what a binding's function returns at one evaluation: a value, or a
\* promise that will be fulfilled with the value or rejected
Now(v) == [promise |-> FALSE, outcome |-> "fulfilled", value |-> v]
Later(v, outcome) == [promise |-> TRUE, outcome |-> outcome, value |-> v]
_isPromiseLike(result) == result.promise

\* the variables lastTextValue (last) and isInitialized (set) of
\* _handleReactiveText, line 1352
textClosure(el) == [closure(el, "text") EXCEPT !.last = Null]

\* lines 1359-1363 and 1367-1371
setText(d, c, v) ==
    IF ~d.closures[c].set \/ v # d.closures[c].last
    THEN [d EXCEPT !.textContent = Put(@, d.closures[c].element, toText(v)),
                   !.closures[c].last = v,
                   !.closures[c].set = TRUE]
    ELSE d

\* what both branches of updateText and of updateChildren do with a value
\* (lines 1286-1290 and 1294-1298 are updateFine)
write(d, c, v) ==
    IF d.closures[c].kind = "text" THEN setText(d, c, v)
    ELSE updateFine(d, c, v)

\* updateText, lines 1354-1376, and updateChildren, lines 1281-1304, when
\* the function returns result: a promise gets its handlers, a value is
\* written at once
updateBinding(d, c, result) ==
    IF _isPromiseLike(result)
    THEN [d EXCEPT !.thens = Append(@, [closure |-> c,
                                        outcome |-> result.outcome,
                                        value |-> result.value,
                                        state |-> "pending"])]
    ELSE write(d, c, result.value)

\* _handleReactiveText and _handleReactiveChildren for the element d.ret:
\* _createReactiveUpdate runs the update function once
bind(d, kind, result) ==
    updateBinding(
        [d EXCEPT !.closures =
             Append(@, IF kind = "text" THEN textClosure(d.ret)
                       ELSE closure(d.ret, "fine-grained"))],
        Len(d.closures) + 1, result)

\* _createElementFineGrained for {span: {text: fn}} or {ul: {children: fn}}
renderBound(d, kind, result) ==
    bind(createElement(d, IF kind = "text" THEN "span" ELSE "ul"),
         kind, result)

\* a then-handler that drops the resolution of every evaluation but the
\* latest of its binding
thenHandler_LatestOnly(d, j) ==
    IF /\ d.thens[j].outcome = "fulfilled"
       /\ \A i \in (j + 1)..Len(d.thens) :
              d.thens[i].closure # d.thens[j].closure
    THEN write([d EXCEPT !.thens[j].state = "settled"],
               d.thens[j].closure, d.thens[j].value)
    ELSE [d EXCEPT !.thens[j].state = "settled"]

\* the promise of the j-th handlers settles: the then callback of lines
\* 1358-1364 or 1285-1291 writes the value, the catch callback logs
thenHandler(d, j) ==
    IF d.thens[j].outcome = "fulfilled"
    THEN write([d EXCEPT !.thens[j].state = "settled"],
               d.thens[j].closure, d.thens[j].value)
    ELSE [d EXCEPT !.thens[j].state = "settled"]

MaxBindings == 1
MaxThens == 3
MaxBoundNodes == 5

\* what the functions of the bindings return (the value of a rejected
\* promise is never looked at)
TextValues == {Num(1), Num(2), Str(<<"1">>)}
ChildrenValues == {<< >>, <<Leaf("li", NoKey)>>, <<Leaf("p", NoKey)>>}
ResultsOf(kind) ==
    LET V == IF kind = "text" THEN TextValues ELSE ChildrenValues
    IN {Now(v) : v \in V} \cup {Later(v, "fulfilled") : v \in V}
           \cup {Later(CHOOSE v \in V : TRUE, "rejected")}

\* domRenderer.render({span: {text: fn}}) or render({ul: {children: fn}})
MountBinding ==
    \E kind \in {"text", "children"} :
        \E result \in ResultsOf(kind) :
            /\ Len(closures) < MaxBindings
            /\ BecomesRenderer(renderBound(Renderer, kind, result))

\* a path the function of binding c read has changed: the subscription
\* runs updateText or updateChildren, and the function returns result
Reevaluate ==
    \E c \in 1..Len(closures) :
        \E result \in ResultsOf(closures[c].kind) :
            /\ Len(thens) < MaxThens
            /\ Len(nodes) < MaxBoundNodes
            /\ BecomesRenderer(updateBinding(Renderer, c, result))

\* a promise settles (promises settle in any order) and its handler runs
PromiseSettles ==
    \E j \in 1..Len(thens) :
        /\ thens[j].state = "pending"
        /\ Len(nodes) < MaxBoundNodes
        /\ BecomesRenderer(thenHandler(Renderer, j))

NextBinding ==
    \/ MountBinding
    \/ Reevaluate
    \/ PromiseSettles

SpecBinding == Init /\ [][NextBinding]_vars

\* ------------------------------------------------------------------------
\* Properties.  A property about a call is stated in every reachable state
\* for every input of the call: r is the object as the call leaves it,
\* r.calls what the call invoked, in order, r.exc whether it threw.
\* ------------------------------------------------------------------------
NonBatched == ~(batchingEnabled /\ batchDelayMs > 0)

\* outside any notification
Idle == ~isUpdating

\* the value stored at p in the tree (undefined when there is none)
Stored(p) == walk(Obj(state), getPathParts(p), Undef)

\* what getState(p) returns for r: the stored value, undefined read as null
Shown(r, p) == getState(r, p, Null, FALSE).value

\* the caller goes on after a call (having caught what it threw)
Next1(r) == [r EXCEPT !.calls = << >>, !.exc = FALSE]

Positions(r, k) == {i \in 1..Len(r.calls) : r.calls[i].k = k}

\* the i-th event belongs to a setState issued from inside a callback
Nested(r, i) ==
    \E j \in 1..(i - 1) :
        /\ r.calls[j].k = "call"
        /\ \A m \in j..i : r.calls[m].k # "return"

\* where the setState call that made the i-th event returns
ReturnOf(r, i) ==
    IF Nested(r, i)
    THEN CHOOSE j \in i..Len(r.calls) :
            /\ r.calls[j].k = "return"
            /\ \A m \in i..(j - 1) : r.calls[m].k # "return"
    ELSE Len(r.calls) + 1

\* q is a strict ancestor of p
IsAncestor(q, p) == startsWith(p, q \o <<".">>)

\* the external subscriptions as (subscribed path, subscription) pairs
ExternalSubs ==
    UNION { { <<externalSubscribers[i].path, externalSubscribers[i].subs[j]>> :
                j \in 1..Len(externalSubscribers[i].subs) } :
            i \in 1..Len(externalSubscribers) }

\* the internal bindings as (bound path, callback) pairs
InternalSubs ==
    UNION { { <<subscribers[i].path, subscribers[i].cbs[j]>> :
                j \in 1..Len(subscribers[i].cbs) } :
            i \in 1..Len(subscribers) }

\* an external subscription es is due for a change at c
ExternalDue(es, c) ==
    \/ c = es[1]
    \/ es[2].hierarchical /\ IsAncestor(es[1], c)

\* an internal binding is due for a change at c
InternalDue(is, c) ==
    is[1] = c \/ IsAncestor(is[1], c) \/ IsAncestor(c, is[1])

\* every subscriber due for the write at position i of r.calls has been
\* invoked for it before position end
AllDueInvoked(r, i, end) ==
    /\ \A es \in ExternalSubs :
          ExternalDue(es, r.calls[i].path) =>
              \E j \in (i + 1)..(end - 1) :
                  /\ r.calls[j].k = "external"
                  /\ r.calls[j].id = es[2].id
                  /\ r.calls[j].path = r.calls[i].path
    /\ \A is \in InternalSubs :
          InternalDue(is, r.calls[i].path) =>
              \E j \in (i + 1)..(end - 1) :
                  /\ r.calls[j].k = "internal"
                  /\ r.calls[j].id = is[2]
                  /\ r.calls[j].path = is[1]

\* the callback body throws
Throws(cb) == \E i \in 1..Len(Program(cb)) : Program(cb)[i].op = "throw"

\* some callback invoked during r threw
SomeCallbackThrew(r) ==
    \/ \E i \in Positions(r, "internal") : Throws(r.calls[i].id)
    \/ \E i \in Positions(r, "external") :
          \E es \in ExternalSubs :
              es[2].id = r.calls[i].id /\ Throws(es[2].callback)

\* The middleware pipeline as the specification describes it: the value left
\* after the first i middleware, each one seeing the value left by the one
\* before it, a throw or an undefined result leaving the value as it was
Piped(mws, path, oldValue, value) ==
    LET F[i \in 0..Len(mws)] ==
            IF i = 0 THEN value
            ELSE LET c == mwCall(mws[i], path, oldValue, F[i - 1])
                 IN IF c.threw \/ c.result = Undef THEN F[i - 1] ELSE c.result
    IN F

\* undefined is read back as null, the default of getState
AsRead(v) == IF v = Undef THEN Null ELSE v

\* some callback run during r called setState at, above or below p
WritesAround(r, p) ==
    \E i \in Positions(r, "call") :
        \/ r.calls[i].path = p
        \/ IsAncestor(r.calls[i].path, p)
        \/ IsAncestor(p, r.calls[i].path)

\* setState(p, v1) then setState(p, v2), both issued outside any notification
\* and in non-batched mode: the object after each call (no run when the
\* first call is not issued outside a notification, or the second is not)
C1_Runs(p, v1, v2) ==
    IF ~(NonBatched /\ Idle /\ p \notin currentlyUpdating) THEN {}
    ELSE LET r1 == setState(Self, p, v1)
         IN IF r1.isUpdating \/ p \in r1.currentlyUpdating THEN {}
            ELSE { [first |-> r1, second |-> setState(Next1(r1), p, v2)] }

C2_DeepEqualWriteIsNoOp ==
    \A p \in ValidPaths, v \in Values :
        ( /\ NonBatched /\ Idle /\ p \notin currentlyUpdating
          /\ deepEquals(Stored(p),
                        Piped(middleware, p, AsRead(Stored(p)), v)[Len(middleware)]) )
        => LET r == setState(Self, p, v)
           IN /\ r.state = state
              /\ Positions(r, "internal") = {}
              /\ Positions(r, "external") = {}

\* C3: in non-batched mode, every setState call that changes the value at a
\* path has notified all subscribers due for that change by the time it
\* returns, for top-level calls and equally for a setState on another path
\* issued from inside a subscriber callback.
C3_NotifiedBeforeReturn ==
    \A p \in ValidPaths, v \in {Num(1), Num(2)} :
        (NonBatched /\ Idle) =>
            LET r == setState(Self, p, v)
            IN \A i \in Positions(r, "write") :
                  AllDueInvoked(r, i, ReturnOf(r, i))

\* C4: if a subscriber callback (internal or external) throws during
\* notification, the exception does not propagate out of setState and every
\* other subscriber due for the same change is still invoked.
C4_SubscriberErrorsContained ==
    \A p \in ValidPaths, v \in {Num(1), Num(2)} :
        (NonBatched /\ Idle) =>
            LET r == setState(Self, p, v)
            IN SomeCallbackThrew(r) =>
                  /\ ~r.exc
                  /\ \A i \in Positions(r, "write") :
                        ~Nested(r, i) => AllDueInvoked(r, i, Len(r.calls) + 1)

\* C5: for a top-level, non-batched setState that changes the value at path
\* c, an exact external subscription on s is invoked exactly once if c = s and
\* not at all otherwise; a hierarchical one on s exactly once if c = s or c
\* starts with s + '.', and not at all otherwise.
C5_ExternalMatching ==
    \A c \in ValidPaths, v \in {Num(1), Num(2)} :
        (NonBatched /\ Idle) =>
            LET r == setState(Self, c, v)
            IN (\E i \in Positions(r, "write") : ~Nested(r, i)) =>
                  \A es \in ExternalSubs :
                      Cardinality({ j \in Positions(r, "external") :
                                      r.calls[j].id = es[2].id })
                          = IF ExternalDue(es, c) THEN 1 ELSE 0

Batched == batchingEnabled /\ batchDelayMs > 0

\* the operations of the batching specification that can run callbacks:
\* a setState call, or a flush of the queue by a timer
Operations ==
    { setState(Self, p, v) : p \in BatchPaths, v \in {Num(1), Num(2)} }
        \cup { _processBatchedUpdates(Self) }

\* the events of r made by the call itself, not by a nested setState
TopLevel(r, k) == {i \in Positions(r, k) : ~Nested(r, i)}

\* the path whose notification is running at position i of r.calls
Notifying(r, i) ==
    LET before == {j \in TopLevel(r, "write") : j < i}
    IN IF before = {} THEN {}
       ELSE {r.calls[CHOOSE j \in before : \A m \in before : m <= j].path}

\* C6: a setState call with an invalid path (not a string, empty or blank, or
\* containing '..') or on a path whose own notification is currently in
\* progress is dropped: it throws nothing, invokes no middleware and no
\* subscriber, and leaves the state tree, the update queue and both
\* subscriber registries unchanged.
C6_DroppedCallsHaveNoEffect ==
    /\ \A p \in ValidPaths \cup InvalidPaths, v \in {Num(1), Num(2)} :
          (p \in InvalidPaths \/ p \in currentlyUpdating) =>
              setState(Self, p, v) = Self
    /\ \A r \in Operations :
          \A i \in Positions(r, "call") :
              r.calls[i].path \in currentlyUpdating \cup Notifying(r, i) =>
                  r.calls[i + 1].k = "return"

\* a callback calls setState on the path being notified, with batching on
C6_Witness ==
    /\ Batched
    /\ \E r \in Operations :
          \E i \in Positions(r, "call") :
              /\ r.calls[i].path \in Notifying(r, i)
              /\ r.calls[i + 1].k = "return"

\* C7: middleware run in registration order, each receiving as newValue the
\* value produced by the middleware before it; a middleware that throws (or
\* returns undefined) leaves the running value as it was, all later
\* middleware still run, and the value written is the one left after the
\* last middleware.
C7_MiddlewarePipeline ==
    \A p \in ValidPaths, v \in Values :
        p \notin currentlyUpdating =>
            LET r == setState(Self, p, v)
                old == AsRead(Stored(p))
                n == Len(middleware)
                F == Piped(middleware, p, old, v)
            IN /\ Len(r.calls) >= n
               /\ \A i \in 1..n :
                     r.calls[i] = Ev("mw", middleware[i], p, F[i - 1], old)
               /\ TopLevel(r, "mw") = 1..n
               /\ IF F[n] = old THEN Len(r.calls) = n
                  ELSE /\ Len(r.calls) > n
                       /\ r.calls[n + 1] = Ev("write", 0, p, F[n], old)
                       /\ TopLevel(r, "write") = {n + 1}

\* a throwing middleware ahead of one that replaces the value
C7_Witness ==
    /\ middleware = <<"mwThrow", "mwCap">>
    /\ subscribers # << >>
    /\ \E p \in ValidPaths :
          LET r == setState(Self, p, Num(2))
          IN \E i \in TopLevel(r, "write") : r.calls[i].val = Num(1)

\* the place of a triggered path q in the order of a notification for p:
\* p itself, its strict ancestors from the nearest up, then the paths below p
Rank(q, p) ==
    IF q = p THEN 0
    ELSE IF IsAncestor(q, p) THEN Len(p) - Len(q)
    ELSE IF IsAncestor(p, q) THEN Len(p) + 1
    ELSE -1

\* C8: within one notifying setState(p), internal subscribers are triggered
\* in this order: first the callbacks bound to p itself, then those bound to
\* each strict ancestor of p from the nearest up to the top-level segment,
\* then those bound to every registered path that has p + '.' as a prefix;
\* external subscribers are notified only after all internal ones.
C8_NotificationOrder ==
    \A p \in ValidPaths, v \in {Num(1), Num(2)} :
        (NonBatched /\ Idle) =>
            LET r == setState(Self, p, v)
            IN /\ \A i \in Positions(r, "internal") :
                     Rank(r.calls[i].path, p) >= 0
               /\ \A i \in Positions(r, "internal"), j \in Positions(r, "internal") :
                     i < j => Rank(r.calls[i].path, p) <= Rank(r.calls[j].path, p)
               /\ \A i \in Positions(r, "internal"), j \in Positions(r, "external") :
                     i < j

\* one state where a change of 'a.b.c' triggers 'a.b.c', 'a.b' and 'a' and then
\* an external subscriber, and a change of 'a' triggers paths below it
C8_Witness ==
    /\ Idle
    /\ \E v \in {Num(1), Num(2)} :
          LET r == setState(Self, pABC, v)
          IN /\ {pABC, pAB, pA} \subseteq
                    {r.calls[i].path : i \in Positions(r, "internal")}
             /\ Positions(r, "external") # {}
    /\ \E v \in {Num(1), Num(2)} :
          LET r == setState(Self, pA, v)
          IN \E i \in Positions(r, "internal") : IsAncestor(pA, r.calls[i].path)

\* the last value queued for path q in a batch
LastQueued(batch, q) ==
    batch[CHOOSE i \in 1..Len(batch) :
            /\ batch[i].path = q
            /\ \A j \in (i + 1)..Len(batch) : batch[j].path # q].value

\* C9: with batching enabled and batchDelayMs > 0, setState only enqueues (the
\* tree is unchanged and no subscriber runs until a flush); a flush removes
\* up to maxBatchSize entries from the head of the queue and, for each
\* distinct path among them, applies exactly one write carrying the last
\* value queued for that path in the batch.
C9_BatchedFlush ==
    /\ \A p \in BatchPaths, v \in {Num(1), Num(2)} :
          (Batched /\ p \notin currentlyUpdating) =>
              LET r == setState(Self, p, v)
              IN /\ Positions(r, "queue") # {}
                 /\ Positions(r, "flush") = {} =>
                       /\ r.state = state
                       /\ r.updateQueue =
                              Append(updateQueue, [path |-> p, value |-> v])
                       /\ Positions(r, "internal") = {}
                       /\ Positions(r, "external") = {}
    /\ (updateQueue # << >> /\ ~batchUpdateInProgress) =>
          LET r == _processBatchedUpdates(Self)
              n == IF maxBatchSize < Len(updateQueue)
                   THEN maxBatchSize ELSE Len(updateQueue)
              batch == SubSeq(updateQueue, 1, n)
              rest == SubSeq(updateQueue, n + 1, Len(updateQueue))
          IN /\ Len(r.updateQueue) >= Len(rest)
             /\ SubSeq(r.updateQueue, 1, Len(rest)) = rest
             /\ \A q \in {batch[i].path : i \in 1..n} :
                   \E i \in Positions(r, "apply") :
                       /\ r.calls[i].path = q
                       /\ r.calls[i].val = LastQueued(batch, q)
                       /\ \A j \in Positions(r, "apply") :
                             r.calls[j].path = q => j = i

\* batching configured as enabled, batchDelayMs: 0, maxBatchSize: 50
ZeroDelay ==
    batchingEnabled /\ batchDelayMs = 0 /\ maxBatchSize = DefaultMaxBatchSize

\* the values of the writes made by the call itself, in order
RECURSIVE WritesFrom(_, _)
WritesFrom(r, i) ==
    IF i > Len(r.calls) THEN << >>
    ELSE IF r.calls[i].k = "write" /\ ~Nested(r, i)
    THEN <<r.calls[i]>> \o WritesFrom(r, i + 1)
    ELSE WritesFrom(r, i + 1)

\* setState('counter', 1) then setState('counter', 2) on path p, both issued
\* outside any notification
C10_Runs(p) ==
    IF ~(ZeroDelay /\ Idle /\ p \notin currentlyUpdating) THEN {}
    ELSE LET r1 == setState(Self, p, Num(1))
         IN IF r1.isUpdating \/ p \in r1.currentlyUpdating
            THEN { [first |-> r1, second |-> Next1(r1), both |-> FALSE] }
            ELSE { [first |-> r1, second |-> setState(Next1(r1), p, Num(2)),
                    both |-> TRUE] }

AppliedAtOnce(pre, r, p, v) ==
    /\ r.updateQueue = pre.updateQueue
    /\ Positions(r, "queue") = {} /\ Positions(r, "flush") = {}
    /\ r.batchTimeout = pre.batchTimeout
    /\ IF Shown(pre, p) = v THEN WritesFrom(r, 1) = << >>
       ELSE /\ Len(WritesFrom(r, 1)) = 1
            /\ WritesFrom(r, 1)[1].path = p
            /\ WritesFrom(r, 1)[1].val = v
            /\ (\E es \in ExternalSubs : ExternalDue(es, p))
                  \/ (\E is \in InternalSubs : InternalDue(is, p))
               => Positions(r, "internal") \cup Positions(r, "external") # {}

RECURSIVE Drain(_, _)
Drain(sm, n) ==
    IF sm.updateQueue = << >> \/ n = 0 THEN sm
    ELSE Drain(_processBatchedUpdates(Next1(sm)), n - 1)

\* the queued writes issued one after the other with batching off
RECURSIVE IssueAll(_, _)
IssueAll(sm, writes) ==
    IF writes = << >> THEN sm
    ELSE IssueAll(setState(Next1(sm), Head(writes).path, Head(writes).value),
                  Tail(writes))

BoundPaths(r, cb) ==
    { r.subscribers[i].path : i \in { j \in 1..Len(r.subscribers) :
                                        InSeq(cb, r.subscribers[j].cbs) } }

\* the positions in r.calls of the runs of internal callbacks, in order
RECURSIVE InternalRuns(_, _)
InternalRuns(r, i) ==
    IF i > Len(r.calls) THEN << >>
    ELSE IF r.calls[i].k = "internal" THEN <<i>> \o InternalRuns(r, i + 1)
    ELSE InternalRuns(r, i + 1)

\* the paths read by the k-th run of an internal callback during the call
\* that took pre to r: the content of the k-th tracking Set the call created
ReadsOfRun(pre, r, k) ==
    { r.sets[Len(pre.sets) + k][i] : i \in 1..Len(r.sets[Len(pre.sets) + k]) }

\* C12: after an internal subscriber callback has been re-run by a
\* notification, the set of paths it is bound to equals the set of paths it
\* read during that most recent run: paths it read only in earlier runs are
\* no longer bound to it (no stale union).
C12_BoundToLatestReads ==
    \A p \in ValidPaths, v \in {Num(1), Num(2)} :
        (NonBatched /\ Idle) =>
            LET r == setState(Self, p, v)
                runs == InternalRuns(r, 1)
            IN ~r.exc =>
                  \A k \in 1..Len(runs) :
                      (\A m \in (k + 1)..Len(runs) :
                            r.calls[runs[m]].id # r.calls[runs[k]].id)
                      => BoundPaths(r, r.calls[runs[k]].id) = ReadsOfRun(Self, r, k)


\* the promises handed to promisify by the staged render of a hydration
StagedPromises == {p \in 1..Len(promises) : promises[p].staged}

\* C13: in hydration mode the container shows the staged subtree only once
\* every promise that the staged render handed to promisify has settled;
\* as long as one of them is pending the container keeps its live content.
C13_SwapAfterAllSettled ==
    container = "staged" =>
        \A p \in StagedPromises : promises[p].state # "pending"

\* C14: while tracking is active a completion subscriber is invoked only
\* for a drain of the in-flight set that happened while it was registered
\* and that it has not been told about yet, and once at a time: once per
\* drain, not once per settled promise and not at registration.
C14_OncePerDrain ==
    [][\A c \in CompletionCallbacks :
          (isTracking /\ invoked'[c] # invoked[c]) =>
              /\ invoked'[c] = invoked[c] + 1
              /\ owed[c] > 0]_vars

\* the children of the element a render call returned
Rendered(r) == r.nodes[r.ret].children

\* what a child of a list is to render to: an error node for a component
\* that throws, the element of its tag otherwise
RendersAs(node, item) ==
    IF item.tag \in {"Throws", "ThrowsNull", "RenderThrows"}
    THEN node.kind = "error"
    ELSE /\ node.kind = "element"
         /\ node.tag = (IF item.tag = "Ok" THEN "span" ELSE item.tag)

\* the lists of C15: a throwing component among items that render
C15_Lists ==
    {kids \in ChildLists :
        /\ \E i \in 1..Len(kids) :
              kids[i].tag \in {"Throws", "ThrowsNull", "RenderThrows"}
        /\ \A i \in 1..Len(kids) : kids[i].tag # InvalidTag}

\* C15: rendering a children list with a registered component whose
\* function or render() throws raises no exception to the caller, puts one
\* error node in that component's position and renders every sibling as
\* its own node.
C15_ErrorNodeInPlace ==
    \A kids \in C15_Lists :
        LET r == render(Renderer, Ul(kids))
        IN /\ r.thrown = ""
           /\ r.ret # 0
           /\ Len(Rendered(r)) = Len(kids)
           /\ \A i \in 1..Len(kids) :
                 RendersAs(r.nodes[Rendered(r)[i]], kids[i])
           /\ \A i, j \in 1..Len(kids) :
                 i # j => Rendered(r)[i] # Rendered(r)[j]

\* the node that holds x among its children, 0 for none, and x's place
ParentOf(d, x) ==
    IF \E p \in 1..Len(d.nodes) : InSeq(x, d.nodes[p].children)
    THEN CHOOSE p \in 1..Len(d.nodes) : InSeq(x, d.nodes[p].children)
    ELSE 0
PlaceOf(d, x) ==
    CHOOSE k \in 1..Len(d.nodes[ParentOf(d, x)].children) :
        d.nodes[ParentOf(d, x)].children[k] = x
\* the kind of the node that stands in r where x stood in d
KindInPlace(d, r, x) ==
    r.nodes[r.nodes[ParentOf(d, x)].children[PlaceOf(d, x)]].kind

\* the promises still awaited behind a placeholder of the document
Awaited ==
    {j \in 1..Len(jobs) :
        jobs[j].state = "pending"
            /\ ParentOf(Renderer, jobs[j].placeholder) # 0}

\* C16: when a promise awaited behind a component placeholder is rejected
\* (a promise-valued prop, the promise of a component function or of a
\* render()), an error marker stands in the placeholder's place afterwards,
\* and every other awaited promise that is fulfilled after that still puts
\* its element in its placeholder's place.
C16_RejectionShowsError ==
    \A j \in Awaited, reason \in Reasons :
        LET r == settle(Renderer, j, "rejected", reason)
        IN /\ KindInPlace(Renderer, r, jobs[j].placeholder) = "error"
           /\ \A k \in Awaited \ {j} :
                 KindInPlace(r, settle(r, k, "fulfilled", "Error"),
                             jobs[k].placeholder) = "element"

\* a render call that left the renderer as r counted a failure and the
\* count is at the threshold or beyond
Breached(r) ==
    r.failureCount > failureCount /\ r.failureCount >= maxFailures

\* C17: the render mode is 'fine-grained' or 'batch'; setRenderMode sets it
\* to its argument if that is one of the two and leaves it alone otherwise;
\* a render call changes it only from batch to fine-grained and exactly
\* when it counted a failure that brought the count to the threshold, so
\* it never goes from fine-grained to batch by itself.
C17_ModeChanges ==
    /\ renderMode \in {"fine-grained", "batch"}
    /\ \A mode \in Modes :
          setRenderMode(Renderer, mode).renderMode =
              IF mode \in {"fine-grained", "batch"} THEN mode
              ELSE renderMode
    /\ \A kids \in ChildLists :
          LET r == render(Renderer, Ul(kids))
          IN /\ r.renderMode \in {"fine-grained", "batch"}
             /\ renderMode = "fine-grained" => r.renderMode = "fine-grained"
             /\ renderMode = "batch" =>
                   (r.renderMode = "fine-grained" <=> Breached(r))

\* the renderer was downgraded by its failures and then set back to batch
\* by setRenderMode
C17_Witness ==
    /\ renderMode = "batch"
    /\ failureCount >= maxFailures

\* the rearrangements of a list
Rearrangements(s) ==
    {[i \in 1..Len(s) |-> s[f[i]]] :
        f \in {g \in [1..Len(s) -> 1..Len(s)] :
                  \A i, j \in 1..Len(s) : i # j => g[i] # g[j]}}

\* the closure c shows its last children list: one output node per item,
\* in order, filed under the item's key
ShowsLast(c) ==
    /\ closures[c].kind = "optimized"
    /\ closures[c].set
    /\ closures[c].useOptimizedPath
    /\ nodes[closures[c].element].children = closures[c].childElements
    /\ Len(closures[c].childElements) = Len(closures[c].last)
    /\ \A i \in 1..Len(closures[c].last) :
          nodes[closures[c].childElements[i]].key = closures[c].last[i].key

\* C18: in batch mode, reconciling a keyed children list to a permutation
\* of itself leaves the very same output nodes as the children, in the new
\* order: no node is created and none is recycled
C18_PermutationReusesNodes ==
    \A c \in 1..Len(closures) :
        (renderMode = "batch" /\ ShowsLast(c)) =>
            \A perm \in Rearrangements(closures[c].last) :
                LET r == updateOptimized(Renderer, c, perm)
                    now == r.nodes[closures[c].element].children
                IN  /\ r.thrown = ""
                    /\ Len(r.nodes) = Len(nodes)
                    /\ r.recyclePool = recyclePool
                    /\ Len(now) = Len(perm)
                    /\ \A i \in 1..Len(now) :
                          \E j \in 1..Len(perm) :
                              /\ perm[i] = closures[c].last[j]
                              /\ now[i] = closures[c].childElements[j]

\* the tree of the initial state captured at construction
InitialTree == Obj(spread(EmptyObj, initialState))

\* one path leads through the other
Related(p, q) ==
    LET a == getPathParts(p)
        b == getPathParts(q)
    IN  \/ Len(a) <= Len(b) /\ SubSeq(b, 1, Len(a)) = a
        \/ Len(b) <= Len(a) /\ SubSeq(a, 1, Len(b)) = b

\* the paths of preserve that hold a value that is not null
Kept(preserve) ==
    {p \in {preserve[i] : i \in 1..Len(preserve)} : Shown(Self, p) # Null}

\* C19: when reset() with no preserved paths returns, the state tree
\* deep-equals the snapshot of the initial state taken at construction,
\* whatever was written before; when reset(preserve) returns, every
\* preserved path that held a non-null value still holds it and every path
\* apart from the preserved ones holds its initial value
C19_ResetRestores ==
    \A preserve \in PreserveLists :
        LET r == reset(Self, preserve)
        IN  ~r.exc =>
                /\ preserve = << >> => deepEquals(Obj(r.state), InitialTree)
                /\ \A p \in Kept(preserve) : Shown(r, p) = Shown(Self, p)
                /\ \A p \in ValidPaths :
                      (\A q \in Kept(preserve) : ~Related(p, q)) =>
                          Shown(r, p) = walk(InitialTree, getPathParts(p), Null)

\* the object found in the state tree under __local, componentId and key
LocalSlot(sm, componentId, key) ==
    Prop(Prop(Prop(Obj(sm.state), <<"_", "_", "l", "o", "c", "a", "l">>),
              componentId),
         key)

\* the pair that context.newState(key, initialValue) returns to the next
\* instance of the component name
NextPair(name, key, initialValue) ==
    [statePath |-> statePathOf(_setupComponent(componentCounters, name).componentId,
                               key),
     initialValue |-> initialValue]

\* C20: for the pair [get, set] returned by context.newState(key, initial),
\* get() returns initial until set is first called, and after any set(v)
\* get() returns v, for every value v, null included; the value is stored at
\* the path __local.<instanceId>.<key>
C20_LocalStatePair ==
    /\ \A name \in LocalComponents, key \in LocalKeys,
          initialValue \in InitialValues :
          LET id == _setupComponent(componentCounters, name).componentId
              pair == NextPair(name, key, initialValue)
              r == newState(Self, pair.statePath, initialValue)
          IN  /\ id = name \o <<"_">> \o toString(componentCounters[name] + 1)
              /\ getter(r, pair).value = initialValue
              /\ \A v \in Values \ {Undef} :
                    /\ getter(setter(r, pair, v), pair).value = v
                    /\ LocalSlot(setter(r, pair, v), id, key) = v
    /\ \A i \in 1..Len(localStates) :
          \A v \in Values \ {Undef} :
              getter(setter(Self, localStates[i], v), localStates[i]).value = v

\* how often the call has invoked the hook of the instance id
CallsOf(cm, hook, id) ==
    Cardinality({i \in 1..Len(cm.hookCalls) :
                    cm.hookCalls[i].hook = hook /\ cm.hookCalls[i].id = id})

\* getState(path, d) finds nothing at the path
Absent(sm, path) ==
    getState(sm, path, Symbol("default", 0), FALSE).value = Symbol("default", 0)

\* C21: after cleanup(element) of a component instance its onUnmount has
\* been invoked exactly once (a throwing one included), every local-state
\* path the instance allocated through newState is absent from the state
\* tree, the instance is no longer registered, and a second cleanup of the
\* element calls no onUnmount
C21_CleanupReleasesInstance ==
    \A i \in 1..Len(created) :
        LET r == cleanupInstance(Manager, created[i].element)
            again == cleanupInstance([r EXCEPT !.hookCalls = << >>],
                                     created[i].element)
        IN  /\ CallsOf(r, "onUnmount", created[i].id) =
                  (IF created[i].onUnmount = "none" THEN 0 ELSE 1)
            /\ \A k \in 1..Len(created[i].paths) :
                  Absent(r.sm, created[i].paths[k])
            /\ created[i].element \notin DOMAIN r.instances
            /\ again.hookCalls = << >>

\* the external callbacks a call has invoked through subscriptions other
\* than id, in order
OtherExternal(r, id) ==
    SelectSeq(r.calls, LAMBDA e : e.k = "external" /\ e.id # id)

\* C22: after the unsubscribe function returned by subscribe(path, cb,
\* hierarchical) has been called, no later setState invokes cb through that
\* subscription, the other subscriptions are invoked as they would have
\* been, and calling unsubscribe again changes nothing, also after a new
\* subscription to the same path
C22_UnsubscribeStops ==
    \A i \in 1..Len(externalSubscribers) :
        \A j \in 1..Len(externalSubscribers[i].subs) :
            LET path == externalSubscribers[i].path
                sub == externalSubscribers[i].subs[j]
                u == unsubscribe(Self, path, sub.id)
            IN  /\ unsubscribe(u, path, sub.id) = u
                /\ nextSub <= MaxSubs =>
                      unsubscribe(subscribe(u, path, sub.callback, TRUE),
                                  path, sub.id)
                          = subscribe(u, path, sub.callback, TRUE)
                /\ \A p \in ValidPaths, v \in {Num(1), Num(2)} :
                      LET r == setState(u, p, v)
                      IN  /\ \A n \in 1..Len(r.calls) :
                                r.calls[n].k = "external" =>
                                    r.calls[n].id # sub.id
                          /\ OtherExternal(r, sub.id) =
                                 OtherExternal(setState(Self, p, v), sub.id)

\* two subscriptions on one path, and a write that reaches both
C22_Witness ==
    \E i \in 1..Len(externalSubscribers) :
        /\ Len(externalSubscribers[i].subs) = 2
        /\ \E p \in ValidPaths, v \in {Num(1), Num(2)} :
              LET r == setState(Self, p, v)
              IN  {externalSubscribers[i].subs[1].id,
                   externalSubscribers[i].subs[2].id} \subseteq
                      {r.calls[n].id : n \in {m \in 1..Len(r.calls) :
                                                 r.calls[m].k = "external"}}

\* C23: for a hierarchical subscription on 'a', a top-level setState on
\* 'a.b' that changes the value invokes the callback exactly once, and the
\* new-value and old-value arguments it receives are the full value of the
\* subscribed path 'a' after and before the write
C23_HierarchicalArguments ==
    \A s \in ExternalSubs, v \in {Num(1), Num(2)} :
        (Idle /\ s[1] = pA /\ s[2].hierarchical /\ Shown(Self, pAB) # v) =>
            LET r == setState(Self, pAB, v)
                mine == {n \in Positions(r, "external") :
                            r.calls[n].id = s[2].id}
            IN  /\ Cardinality(mine) = 1
                /\ \A n \in mine :
                      /\ r.calls[n].val = Shown(r, pA)
                      /\ r.calls[n].old = Shown(Self, pA)

\* the tree holds a value at every segment of parts, walking from cur
RECURSIVE Present(_, _)
Present(cur, parts) ==
    \/ parts = << >>
    \/ /\ cur.k = "object"
       /\ Head(parts) \in DOMAIN cur.f
       /\ cur.f[Head(parts)] # Undef
       /\ Present(cur.f[Head(parts)], Tail(parts))

\* the paths asked for: stored ones, missing ones, invalid ones and names
\* that no write has ever stored
AskedPaths ==
    ValidPaths \cup InvalidPaths
        \cup {constructorKey, pA \o <<".">> \o constructorKey}

\* C24: getState(path, d) returns d whenever a segment of the path is
\* missing from the tree or the path is invalid, and it never changes the
\* state tree or a subscriber registry
C24_DefaultWhenMissing ==
    \A p \in AskedPaths, d \in {Null, Num(2)}, tracked \in BOOLEAN :
        LET g == getState(Self, p, d, tracked)
        IN  /\ (~isValidPath(p) \/ ~Present(Obj(state), getPathParts(p))) =>
                  g.value = d
            /\ g.sm.state = state
            /\ g.sm.subscribers = subscribers
            /\ g.sm.externalSubscribers = externalSubscribers

\* the calls of hook on the instance id that the call leading to r made
HookCallsOf(r, hook, id) ==
    SelectSeq(r.hookCalls, LAMBDA c : c.hook = hook /\ c.id = id)

\* r shows the update of the instance of element from its props to newProps:
\* its onUpdate hook, if it has one, was called once with (oldProps,
\* newProps), its render function was called once, and it holds newProps
ShowsUpdate(r, element, newProps) ==
    /\ instances[element].onUpdate # "none" =>
           HookCallsOf(r, "onUpdate", instances[element].id)
               = << [hook |-> "onUpdate", id |-> instances[element].id,
                     args |-> <<instances[element].props, newProps>>] >>
    /\ Len(HookCallsOf(r, "render", instances[element].id)) = 1
    /\ element \in DOMAIN r.instances
    /\ r.instances[element].id = instances[element].id
    /\ r.instances[element].props = newProps

\* r once the then-callback that the call leading to r left behind for the
\* props has run
Settled(r) ==
    IF Len(r.updates) > Len(updates) /\ r.updates[Len(r.updates)].kind = "props"
    THEN propsSettled(taken(r, Len(r.updates)), r.updates[Len(r.updates)])
    ELSE r

\* C25 as stated: updateInstance(element, newProps) with newProps deep-equal
\* to the props of the instance does nothing; with any other newProps the
\* onUpdate hook is called once with (oldProps, newProps), the instance is
\* rendered again and its stored props become newProps, at the latest when
\* the promises among the props have settled.
C25_UpdateInstance ==
    \A element \in DOMAIN instances, newProps \in UpdateProps,
       fresh \in BOOLEAN :
        IF deepEquals(instances[element].props, newProps)
        THEN updateInstance(Manager, element, newProps, fresh) = Manager
        ELSE ShowsUpdate(
                 Settled(updateInstance(Manager, element, newProps, fresh)),
                 element, newProps)

\* C25 (amended): updateInstance(element, newProps) with newProps deep-equal
\* to the props of the instance does nothing: no hook and no render function
\* is called and nothing changes.  With other newProps none of whose values
\* is a promise, the onUpdate hook of the instance, if it has one, is called
\* once with (oldProps, newProps), and, also when the hook throws, the
\* render function of the instance is called once and the stored props are
\* newProps when updateInstance returns.
C25_UpdateInstanceSyncProps ==
    \A element \in DOMAIN instances, newProps \in UpdateProps,
       fresh \in BOOLEAN :
        IF deepEquals(instances[element].props, newProps)
        THEN updateInstance(Manager, element, newProps, fresh) = Manager
        ELSE ~_hasAsyncProps(newProps) =>
                 ShowsUpdate(
                     updateInstance(Manager, element, newProps, fresh),
                     element, newProps)

\* an instance whose onUpdate hook throws has been updated from {b: 1} to
\* {b: 2}, no promise among any props so far
C25_Witness ==
    \E element \in DOMAIN instances :
        /\ instances[element].onUpdate = "throws"
        /\ instances[element].props = PropsB2
        /\ asyncPropsCache = NoCache
        /\ \A j \in 1..Len(updates) : updates[j].kind = "content"

\* C26: the local-state paths of component instances are isolated: no two
\* pairs handed out by newState to different instances hold the same
\* statePath, a public setState on the statePath of a pair leaves the value
\* its getter reads as it was, and a public getState on the statePath reads
\* nothing (it returns the default of the caller).
C26_LocalStateIsolated ==
    /\ \A i, j \in 1..Len(localStates) :
           i # j => localStates[i].statePath # localStates[j].statePath
    /\ \A i \in 1..Len(localStates), value \in Values :
           getter(setState(Self, localStates[i].statePath, value),
                  localStates[i]).value
               = getter(Self, localStates[i]).value
    /\ \A i \in 1..Len(localStates) :
           getState(Self, localStates[i].statePath, Symbol("outside", 1),
                    TRUE).value = Symbol("outside", 1)

\* C27: between two top-level calls the isUpdating flag is false and the set
\* of paths being updated is empty, also after a callback has thrown during
\* a notification, so that a non-batched setState with a value that differs
\* from the one read at the path writes it and invokes every external
\* subscription due for the path.
C27_GuardReleased ==
    /\ ~isUpdating
    /\ currentlyUpdating = {}
    /\ \A p \in ValidPaths, v \in {Num(1), Num(2)} :
          (NonBatched /\ ~deepEquals(Shown(Self, p), v)) =>
              LET r == setState(Self, p, v)
              IN /\ \E i \in TopLevel(r, "write") :
                        r.calls[i].path = p /\ r.calls[i].val = v
                 /\ \A es \in ExternalSubs :
                        ExternalDue(es, p) =>
                            \E j \in Positions(r, "external") :
                                r.calls[j].id = es[2].id

\* updateFn is bound to the path in the internal subscriber map of r
BoundIn(r, updateFn, path) ==
    \E i \in 1..Len(r.subscribers) :
        r.subscribers[i].path = path /\ InSeq(updateFn, r.subscribers[i].cbs)

\* C28: a reactive evaluation leaves the current-tracking slot as it found
\* it: when _createReactiveUpdate sets a binding up, also for a function that
\* throws, and when a setState re-runs the bound callbacks; a function that
\* reads 'ax' after the binding of a child was set up inside it is bound to
\* 'ax'.
C28_TrackingRestored ==
    /\ \A updateFn \in ReactiveFns \cup {"rCond", "rOuter"} :
           _createReactiveUpdate(Self, updateFn).currentTracking
               = Self.currentTracking
    /\ \A p \in ValidPaths, v \in {Num(1), Num(2)} :
           NonBatched =>
               setState(Self, p, v).currentTracking = Self.currentTracking
    /\ BoundIn(_createReactiveUpdate(Self, "rOuter"), "rOuter", pAx)

\* C29: after DOMRenderer.cleanup(element) the reactive callback created for
\* the element is bound to no path in the internal subscriber map, the paths
\* it was bound to by dynamic re-tracking included, and no setState after
\* the cleanup runs it.
C29_CleanupUnbinds ==
    \A element \in DOMAIN subscriptions :
        LET r == cleanupElement(Bound, element)
        IN /\ \A i \in 1..Len(r.sm.subscribers) :
                  ~InSeq(element, r.sm.subscribers[i].cbs)
           /\ \A p \in ValidPaths, v \in {Num(1), Num(2)} :
                  \A j \in Positions(setState(r.sm, p, v), "internal") :
                      setState(r.sm, p, v).calls[j].id # element

\* the event loop runs every timer that is due: the timer of _queueUpdate
\* and the follow-up timers of _processBatchedUpdates fire
SpecBatchFair ==
    /\ SpecBatch
    /\ WF_vars(BatchTimeoutFires)
    /\ WF_vars(FollowUpFires)

\* the same fairness with ENABLED written out: BatchTimeoutFires can take a
\* step that changes vars exactly when armed, FollowUpFires exactly when
\* timers > 0
TimersKeepFiring ==
    /\ []<>(~armed) \/ []<><<BatchTimeoutFires>>_vars
    /\ []<>(timers = 0) \/ []<><<FollowUpFires>>_vars

SpecBatchTimers == SpecBatch /\ TimersKeepFiring

\* unless setState calls keep arriving, the queue is empty from some time on
QueueDrains ==
    \/ []<><<SetState(BatchPaths \cup InvalidPaths, {Num(1), Num(2)})>>_vars
    \/ <>[](updateQueue = << >>)

\* C30: with batching enabled and batchDelayMs > 0, every update accepted
\* into the queue is taken from it and applied, or superseded by a later
\* write to its path in the same batch, with no accepted update lost, also
\* when a write of the batch raises an error or a subscriber calls setState
\* during the flush: a flush of the queue as it stands leaves what it does
\* not take at the head of the queue, and for every update of the batch it
\* takes, the last value queued for the path of the update in the batch is
\* applied.  (That the timers fire until the queue is empty is QueueDrains.)
C30_NoAcceptedUpdateLost ==
    (updateQueue # << >> /\ ~batchUpdateInProgress) =>
        LET r == _processBatchedUpdates(Self)
            n == Min(maxBatchSize, Len(updateQueue))
            batch == SubSeq(updateQueue, 1, n)
            rest == SubSeq(updateQueue, n + 1, Len(updateQueue))
        IN /\ Len(r.updateQueue) >= Len(rest)
           /\ SubSeq(r.updateQueue, 1, Len(rest)) = rest
           /\ \A i \in 1..n :
                  \E j \in Positions(r, "apply") :
                      /\ r.calls[j].path = batch[i].path
                      /\ r.calls[j].val = LastQueued(batch, batch[i].path)

\* the paths a function passes to getState with tracking on
TrackedReads(updateFn) ==
    {Program(updateFn)[i].path :
        i \in {j \in 1..Len(Program(updateFn)) : Program(updateFn)[j].op = "get"}}

\* the dependency set that _createReactiveUpdate collected in r, when the
\* manager had n sets before the call
Collected(r, n) == {r.sets[n + 1][i] : i \in 1..Len(r.sets[n + 1])}

\* C31: the dependency set collected while a reactive function runs holds
\* exactly the paths the function passed to getState with tracking on: an
\* untracked getState adds nothing, and a setState made by the function does
\* not add the path it writes.
C31_TrackedReadsOnly ==
    \A updateFn \in {"rAll", "rWrite"} :
        Collected(_createReactiveUpdate(Self, updateFn), Len(Self.sets))
            = TrackedReads(updateFn)

\* the element x is still registered in the element cache of r under the
\* key it carries: cleanup(x) has not run since the key was given to it
Registers(r, x) ==
    r.nodes[x].key # NoKey /\ mapGet(r.elementCache, r.nodes[x].key) = x

\* C32: when a children function's new list is reconciled, every old child
\* that is not reused is detached from its parent and cleaned up (it is no
\* longer registered in the element cache), however full the recycle pool
\* of its tag is, and no pool ever holds more than recyclePoolSize nodes.
C32_UnusedChildrenCleanedUp ==
    \A c \in 1..Len(closures), kids \in LongLists :
        LET r == updateOptimized(Renderer, c, kids)
        IN  /\ \A x \in {closures[c].childElements[i] :
                            i \in 1..Len(closures[c].childElements)} :
                   ~InSeq(x, r.closures[c].childElements) =>
                       /\ ParentOf(r, x) = 0
                       /\ ~Registers(r, x)
            /\ \A t \in NodeTags : Len(r.recyclePool[t]) <= recyclePoolSize

\* children lists with an item that makes keyed reconciliation throw: an
\* element whose tag createElement rejects, or a component that throws null
FailingLists ==
    {kids \in UNION { [1..n -> {Leaf("li", "k1"), Leaf(InvalidTag, "k2"),
                                Leaf("ThrowsNull", "k2")}] : n \in 1..2 } :
        \A i, j \in 1..Len(kids) : i # j => kids[i].key # kids[j].key}

\* C33: when the keyed reconciliation of a new children list throws, the
\* update leaves no exception behind, the closure gives the optimized path
\* up, and the renderer's failure counter has gone up by exactly one, the
\* renderer being in fine-grained mode once the counter is at maxFailures.
C33_ReconcileFailureCounted ==
    \A c \in 1..Len(closures), kids \in FailingLists :
        LET r == updateOptimized(Renderer, c, kids)
        IN  (/\ closures[c].kind = "optimized"
             /\ closures[c].useOptimizedPath
             /\ _reconcileChildren(Renderer, closures[c].element,
                                   closures[c].childElements, kids).thrown # "")
            => /\ r.thrown = ""
               /\ ~r.closures[c].useOptimizedPath
               /\ r.failureCount = failureCount + 1
               /\ (r.failureCount >= maxFailures => r.renderMode = "fine-grained")

\* C34: with batching on and a delay, a queue that is within 2 x
\* maxBatchSize stays within it over every setState call and every flush by
\* a timer, the setState calls that subscribers make during the flush
\* included (the queue only grows between such a call's return and the end
\* of the flush).
C34_QueueBounded ==
    (Batched /\ Len(updateQueue) <= 2 * maxBatchSize) =>
        /\ \A p \in BatchPaths, v \in {Num(1), Num(2)} :
               Len(setState(Self, p, v).updateQueue) <= 2 * maxBatchSize
        /\ Len(_processBatchedUpdates(Self).updateQueue) <= 2 * maxBatchSize

\* the tags of the children the element shows
ChildTags(r, el) ==
    [i \in 1..Len(r.nodes[el].children) |-> r.nodes[r.nodes[el].children[i]].tag]

\* the element of binding c shows the value v in r
ShowsValue(r, c, v) ==
    IF r.closures[c].kind = "text"
    THEN /\ r.closures[c].element \in DOMAIN r.textContent
         /\ r.textContent[r.closures[c].element] = toText(v)
    ELSE ChildTags(r, r.closures[c].element) = [i \in 1..Len(v) |-> v[i].tag]

\* C35: nothing cancels an asynchronous binding: whenever the promise of an
\* evaluation is fulfilled, the element shows the promise's value once the
\* handler has run, whatever evaluations of the same binding have been made
\* or have settled since that promise was returned.
C35_StaleResolutionWritten ==
    \A j \in 1..Len(thens) :
        (thens[j].state = "pending" /\ thens[j].outcome = "fulfilled") =>
            ShowsValue(thenHandler(Renderer, j), thens[j].closure,
                       thens[j].value)

\* a newer evaluation of the binding has settled and the element shows its
\* value, and the promise of an older evaluation, fulfilled with another
\* value, replaces it
C35_Witness ==
    \E i, j \in 1..Len(thens) :
        /\ i < j
        /\ thens[i].closure = thens[j].closure
        /\ thens[i].state = "pending" /\ thens[i].outcome = "fulfilled"
        /\ thens[j].state = "settled" /\ thens[j].outcome = "fulfilled"
        /\ ShowsValue(Renderer, thens[j].closure, thens[j].value)
        /\ ~ShowsValue(Renderer, thens[i].closure, thens[i].value)
        /\ ShowsValue(thenHandler(Renderer, i), thens[i].closure,
                      thens[i].value)
        /\ ~ShowsValue(thenHandler(Renderer, i), thens[j].closure,
                       thens[j].value)

\* what the node x shows in r: its tag, kind and text and what its
\* children show
RECURSIVE Content(_, _)
Content(r, x) ==
    [tag |-> r.nodes[x].tag, kind |-> r.nodes[x].kind,
     text |-> IF x \in DOMAIN r.textContent THEN r.textContent[x] ELSE << >>,
     children |-> [i \in 1..Len(r.nodes[x].children) |->
                      Content(r, r.nodes[x].children[i])]]

\* lists of keyed items with a text: {li: {key, text: 1}}, {li: {key, text: 2}}
TextLists ==
    {kids \in UNION { [1..n -> {TextLeaf("li", k, Num(n1)) :
                                   k \in Keys, n1 \in 1..2}] : n \in 0..MaxItems } :
        \A i, j \in 1..Len(kids) : i # j => kids[i].key # kids[j].key}

\* C36: after a reactive children function has returned a list and then
\* another one, the element of a batch-mode binding shows what a
\* fine-grained renderer shows for the second list (the same tags, kinds
\* and texts in the same order), reused keyed nodes included.
C36_BatchShowsWhatFineGrainedShows ==
    \A c \in 1..Len(closures), kids1 \in TextLists, kids2 \in TextLists :
        LET r == updateOptimized(updateOptimized(Renderer, c, kids1), c, kids2)
            f == render([Renderer EXCEPT !.renderMode = "fine-grained"],
                        WithChildren("ul", NoKey, kids2, TRUE))
        IN  closures[c].kind = "optimized" =>
                Content(r, closures[c].element).children
                    = Content(f, f.ret).children

\* children lists of element vnodes only
ElementLists ==
    {kids \in ChildLists : \A i \in 1..Len(kids) : kids[i].tag \in ElementTags}

\* C37: in batch mode, rendering {ul: {children: kids}} for a list of n
\* element vnodes gives the ul n children, each a node of its own with the
\* tag of its vnode, and takes no node away from the parent that shows it,
\* also when two vnodes have the same key or the same tag and props.
C37_DistinctOutputNodes ==
    \A kids \in ElementLists :
        LET r == render(Renderer, Ul(kids))
        IN  renderMode = "batch" =>
                /\ Len(Rendered(r)) = Len(kids)
                /\ \A i, j \in 1..Len(Rendered(r)) :
                       i # j => Rendered(r)[i] # Rendered(r)[j]
                /\ \A i \in 1..Len(Rendered(r)) :
                       r.nodes[Rendered(r)[i]].tag = kids[i].tag
                /\ \A x \in 1..Len(nodes) :
                       ParentOf(Renderer, x) \notin {0, r.ret} =>
                           ParentOf(r, x) = ParentOf(Renderer, x)

\* C38: for every lifecycle component instance, onMount is invoked at most
\* once and onUnmount at most once, and onMount is never invoked after
\* onUnmount, also when the element is cleaned up before the deferred
\* onMount timer fires: when the element of an instance whose onMount timer
\* is the next to run is cleaned up and the timer then runs, each hook has
\* been called at most once and no call of onMount follows a call of
\* onUnmount.
C38_MountNeverAfterUnmount ==
    \A element \in DOMAIN instances :
        (mountTimers # << >>
         /\ Head(mountTimers).id = instances[element].id)
        => LET r == onMountTimer(cleanupInstance(Manager, element))
               id == instances[element].id
           IN /\ CallsOf(r, "onMount", id) <= 1
              /\ CallsOf(r, "onUnmount", id) <= 1
              /\ \A i, j \in 1..Len(r.hookCalls) :
                     (/\ r.hookCalls[i].hook = "onUnmount"
                      /\ r.hookCalls[j].hook = "onMount"
                      /\ r.hookCalls[i].id = id
                      /\ r.hookCalls[j].id = id) => j < i

\* the props the component function was called with during the call
InvokedWith(r) ==
    {r.hookCalls[i].args[1] :
        i \in {j \in 1..Len(r.hookCalls) : r.hookCalls[j].hook = "componentFn"}}

\* C39: a component created with promise-valued props is invoked with
\* props in which each promise-valued entry is replaced by the settled
\* value of that very promise; values resolved for a different props object
\* with the same cache key within the 5-second cache lifetime are never
\* substituted: create with {b: p}, p fulfilled with v, and the settlement
\* of p invoke the component with {b: v} and with nothing else.
C39_OwnPromiseValues ==
    \A name \in CreatedComponents, v \in {Num(1), Num(2)}, fresh \in BOOLEAN :
        componentCounters[name] < MaxInstances =>
            LET props == Obj([x \in {<<"b">>} |-> Thenable("fulfilled", v)])
                waiting == createComponent(Manager, name, props, fresh)
                r == createSettled(taken(waiting, Len(waiting.updates)),
                                   waiting.updates[Len(waiting.updates)])
            IN InvokedWith(r) = {Obj([x \in {<<"b">>} |-> v])}

\* the reactive update functions the call has run as internal subscribers
Notified(r) == {r.calls[i].id : i \in Positions(r, "internal")}

\* C40 as stated: setState(p, v) touches nothing unrelated to p: it invokes
\* no internal subscriber that is bound only to paths which are neither p,
\* a strict ancestor of p nor a descendant of p, and it leaves the value at
\* every path that is neither p, an ancestor nor a descendant of p
\* unchanged.
C40_UnrelatedValuesUnchanged ==
    \A p \in ValidPaths, v \in {Num(1), Num(2)} :
        LET r == setState(Self, p, v)
        IN /\ \A updateFn \in Notified(r) :
                  \E q \in ValidPaths :
                      Related(p, q) /\ BoundIn(Self, updateFn, q)
           /\ \A q \in ValidPaths :
                  ~Related(p, q) => Shown(r, q) = Shown(Self, q)

\* C40, amended: setState(p, v) invokes no internal subscriber that is bound
\* only to paths which are neither p, a strict ancestor of p nor a
\* descendant of p, and its own write leaves the value at every such path
\* unchanged; paths that merely share a string prefix with p, such as 'ax'
\* for 'a', are unaffected.  A subscriber that the call notifies may itself
\* call setState: the value at a path unrelated to p changes only where
\* such a nested call wrote to it.
C40_NothingUnrelatedTouched ==
    \A p \in ValidPaths, v \in {Num(1), Num(2)} :
        LET r == setState(Self, p, v)
        IN /\ \A updateFn \in Notified(r) :
                  \E q \in ValidPaths :
                      Related(p, q) /\ BoundIn(Self, updateFn, q)
           /\ \A q \in ValidPaths :
                  (~Related(p, q) /\ Shown(r, q) # Shown(Self, q)) =>
                      \E i \in Positions(r, "call") :
                          Related(r.calls[i].path, q)

\* one state where 'a' holds a value and rAll is bound below 'a' only, and
\* setState('ax', v) changes 'ax' and runs a subscriber of 'ax' but leaves
\* 'a' alone and does not run rAll; and one where 'ax' holds a value that
\* setState('a', v) leaves alone while it changes 'a' and runs rAll
C40_Witness ==
    /\ \E v \in {Num(1), Num(2)} :
          LET r == setState(Self, pAx, v)
          IN /\ Shown(Self, pA) # Null
             /\ BoundIn(Self, "rAll", pA)
             /\ Notified(r) # {}
             /\ "rAll" \notin Notified(r)
             /\ Shown(r, pAx) # Shown(Self, pAx)
             /\ Shown(r, pA) = Shown(Self, pA)
    /\ \E v \in {Num(1), Num(2)} :
          LET r == setState(Self, pA, v)
          IN /\ Shown(Self, pAx) # Null
             /\ "rAll" \in Notified(r)
             /\ Shown(r, pA) # Shown(Self, pA)
             /\ Shown(r, pAx) = Shown(Self, pAx)

=========================================================================
